---- MODULE Spec2Model ----
(***************************************************************************)
(* Model of the Zenn frontmatter linter (the full script variant with the  *)
(* book checks and the built-in test, and the shorter scripts/lint-zenn.ts *)
(* where it differs).                                                      *)
(*                                                                         *)
(* Strings whose characters matter (paths, file names, slugs) are          *)
(* sequences of one-character strings.  Frontmatter keys are TLA+ strings. *)
(* A JavaScript object is a record [keys, get]: keys is the sequence       *)
(* Object.keys() returns (own keys in the engine's enumeration order) and  *)
(* get maps every own key to its value.                                    *)
(***************************************************************************)
EXTENDS Integers, Sequences, FiniteSets, TLC

VARIABLES
    platform,     \* "posix" or "win32": decides what path.basename splits on
    config,       \* the module-level `config` object
    fsDocs,       \* the Markdown documents on disk: path -> content
    pc,           \* position of the caller
    filePath,     \* argument of the function under call
    lintResult,   \* last value returned by lintZennFrontmatter
    lastSort,     \* what the last call of sortFrontmatter read, built and wrote
    fsBooks,      \* the book directories: dir -> manifest and file names
    script,       \* "full": the script with book fallback checks and built-in
                  \* test; "basic": scripts/lint-zenn.ts
    argvFix,      \* process.argv.includes("--fix")
    files,        \* [...articleFiles, ...chapterFiles] of the run
    fileIdx,      \* next element of files
    bookDirs,     \* getBookDirectories() of the run
    bookIdx,      \* next element of bookDirs
    hasErrors,
    frontmatterResults,
    bookConfigResults,
    returned,     \* every result the two validators returned during the run
    report,       \* the lines printed by the result output
    exitCode,     \* the code handed to process.exit, 0 while it was not called
    sortCalls,    \* the calls of sortFrontmatter made by the run
    fsCalls,      \* the file reads and directory listings lintBookConfig made
                  \* during the run
    configFile,   \* ./zenn-lint.config.json when the script was started
    alone,        \* what each validator returns for each discovered item when
                  \* it is called on that item alone, before the run touches
                  \* anything
    test          \* the built-in test: its current run, its verdict so far and
                  \* what each finished run requested and returned

callVars == <<platform, config, fsDocs, pc, filePath, lintResult, lastSort, fsBooks>>

runVars == <<script, argvFix, files, fileIdx, bookDirs, bookIdx, hasErrors,
             frontmatterResults, bookConfigResults, returned, report, exitCode,
             sortCalls, fsCalls, configFile, alone, test>>

vars == <<callVars, runVars>>

Undefined == "undefined"

----------------------------------------------------------------------------
(* Sequences *)

Range(s) == {s[i] : i \in 1..Len(s)}

\* Array.prototype.indexOf: 0-based index of the first occurrence, -1 if none
IndexOf(s, x) ==
    IF x \in Range(s)
    THEN (CHOOSE i \in 1..Len(s) : s[i] = x /\ \A j \in 1..(i-1) : s[j] # x) - 1
    ELSE -1

\* all sequences over S of length at most n
SeqsUpTo(S, n) == UNION {[1..k -> S] : k \in 0..n}

\* all sequences over S of length at most n without a repeated element
DistinctSeqsUpTo(S, n) ==
    {s \in SeqsUpTo(S, n) : \A i, j \in 1..Len(s) : i # j => s[i] # s[j]}

Rep(c, n) == [i \in 1..n |-> c]

\* String.prototype.includes
Includes(s, sub) ==
    \E i \in 0..(Len(s) - Len(sub)) : SubSeq(s, i + 1, i + Len(sub)) = sub

EndsWith(s, suf) ==
    Len(s) >= Len(suf) /\ SubSeq(s, Len(s) - Len(suf) + 1, Len(s)) = suf

----------------------------------------------------------------------------
(* JavaScript objects *)

\* Names every ordinary object inherits from Object.prototype; the `in`
\* operator and a property read answer for them even when the object has no
\* such own key.  Only the names that occur in the key universe are listed.
ObjectPrototypeKeys == {"constructor", "toString"}

\* Own keys that are array indices ("0", "1", ...) are enumerated first, in
\* ascending numeric order, before all other keys in insertion order.
ArrayIndexValue == [k \in {"1", "2"} |-> IF k = "1" THEN 1 ELSE 2]
IsArrayIndex(k) == k \in DOMAIN ArrayIndexValue

EmptyObj == [keys |-> <<>>, get |-> <<>>]

HasOwn(obj, k) == k \in Range(obj.keys)

\* position (1-based) at which a new own key k enters the enumeration order
JsInsertPos(keys, k) ==
    IF IsArrayIndex(k)
    THEN 1 + Cardinality({i \in 1..Len(keys) :
                 IsArrayIndex(keys[i]) /\ ArrayIndexValue[keys[i]] < ArrayIndexValue[k]})
    ELSE Len(keys) + 1

JsInsertKey(keys, k) ==
    IF k \in Range(keys) THEN keys
    ELSE LET p == JsInsertPos(keys, k)
         IN  SubSeq(keys, 1, p - 1) \o <<k>> \o SubSeq(keys, p, Len(keys))

\* obj[k] = v
JsSet(obj, k, v) ==
    [keys |-> JsInsertKey(obj.keys, k), get |-> (k :> v) @@ obj.get]

\* k in obj
JsIn(k, obj) == HasOwn(obj, k) \/ k \in ObjectPrototypeKeys

\* what obj[k] finds: an own value, a member inherited from Object.prototype
\* (a function), or nothing
JsGetKind(obj, k) ==
    IF HasOwn(obj, k) THEN "own"
    ELSE IF k \in ObjectPrototypeKeys THEN "inherited"
    ELSE "undefined"

\* obj[k] for an object whose own values are strings
FunctionValue == "[Function]"
JsGet(obj, k) ==
    IF HasOwn(obj, k) THEN obj.get[k]
    ELSE IF k \in ObjectPrototypeKeys THEN FunctionValue
    ELSE Undefined

----------------------------------------------------------------------------
(* Characters and paths *)

LowerAlpha == {"a","b","c","d","e","f","g","h","i","j","k","l","m",
               "n","o","p","q","r","s","t","u","v","w","x","y","z"}
Digits == {"0","1","2","3","4","5","6","7","8","9"}

\* the character class [a-z0-9_-]
SlugChars == LowerAlpha \cup Digits \cup {"_", "-"}

DotMd == <<".", "m", "d">>
ArticlesSlash == <<"a","r","t","i","c","l","e","s","/">>
BooksSlash == <<"b","o","o","k","s","/">>

\* separators path.basename and path.extname split on
PathSeps == IF platform = "win32" THEN {"/", "\\"} ELSE {"/"}

\* the path without its trailing separators
StripTrailingSeps(p) ==
    LET keep == {i \in 1..Len(p) : p[i] \notin PathSeps}
    IN  IF keep = {} THEN <<>>
        ELSE SubSeq(p, 1, CHOOSE i \in keep : \A j \in keep : j <= i)

\* the last component of a path: path.basename(p)
BaseName(p) ==
    LET q == StripTrailingSeps(p)
        seps == {i \in 1..Len(q) : q[i] \in PathSeps}
        start == IF seps = {} THEN 1
                 ELSE 1 + CHOOSE i \in seps : \A j \in seps : j <= i
    IN  SubSeq(q, start, Len(q))

\* path.extname(p): from the last "." of the last component to its end; empty
\* when there is no ".", when the only "." is the first character of the
\* component, and for the component ".."
ExtName(p) ==
    LET b == BaseName(p)
        dots == {i \in 1..Len(b) : b[i] = "."}
        d == CHOOSE i \in dots : \A j \in dots : j <= i
    IN  IF dots = {} THEN <<>>
        ELSE IF d = 1 \/ b = <<".", ".">> THEN <<>>
        ELSE SubSeq(b, d, Len(b))

\* path.basename(p, ext): the last component without the suffix ext, unless
\* the component is the suffix itself
BaseNameExt(p, ext) ==
    LET b == BaseName(p)
    IN  IF Len(ext) > 0 /\ EndsWith(b, ext) /\ b # ext
        THEN SubSeq(b, 1, Len(b) - Len(ext))
        ELSE b

----------------------------------------------------------------------------
(* Configuration *)

DefaultPropertyOrder ==
    <<"title", "emoji", "type", "topics", "published", "published_at">>

DefaultRequiredProperties ==
    [keys |-> <<"article", "bookChapter", "default">>,
     get  |-> [t \in {"article", "bookChapter", "default"} |->
                 CASE t = "article" -> <<"title", "emoji", "type", "topics", "published">>
                   [] t = "bookChapter" -> <<"title">>
                   [] OTHER -> <<"title", "published">>]]

DefaultBookConfigRequiredProperties ==
    <<"title", "summary", "topics", "published", "price", "chapters">>

\* a value of contentTypePatterns: an array of substrings, or something else
PatternArray(items) == [isArray |-> TRUE, items |-> items]
NotAnArray == [isArray |-> FALSE, items |-> <<>>]

DefaultContentTypePatterns ==
    [keys |-> <<"article", "bookChapter">>,
     get  |-> [t \in {"article", "bookChapter"} |->
                 IF t = "article" THEN PatternArray(<<ArticlesSlash>>)
                 ELSE PatternArray(<<BooksSlash>>)]]

\* contentTypePatterns absent from the effective configuration (null)
NoPatterns == [keys |-> <<>>, get |-> <<>>, isNull |-> TRUE]

DEFAULT_CONFIG ==
    [propertyOrder |-> DefaultPropertyOrder,
     requiredProperties |-> DefaultRequiredProperties,
     bookConfigRequiredProperties |-> DefaultBookConfigRequiredProperties,
     contentPattern |-> "articles/**/*.md",
     contentTypePatterns |-> DefaultContentTypePatterns]

----------------------------------------------------------------------------
(* Classifier and slug *)

\* the path taken as it is, separators not unified
KeepSeparators(fp) == fp

\* filePath.replace(/\\/g, '/')
NormalizeSeparators(fp) == [i \in 1..Len(fp) |-> IF fp[i] = "\\" THEN "/" ELSE fp[i]]

\* patterns.some(pattern => normalizedPath.includes(pattern))
SomePatternIncluded(normalizedPath, patterns) ==
    /\ patterns.isArray
    /\ \E j \in 1..Len(patterns.items) : Includes(normalizedPath, patterns.items[j])

getContentType(fp) ==
    LET typePatterns == IF "isNull" \in DOMAIN config.contentTypePatterns
                        THEN EmptyObj ELSE config.contentTypePatterns
        normalizedPath == NormalizeSeparators(fp)
        hits == {i \in 1..Len(typePatterns.keys) :
                    SomePatternIncluded(normalizedPath, typePatterns.get[typePatterns.keys[i]])}
    IN  IF hits = {} THEN "default"
        ELSE typePatterns.keys[CHOOSE i \in hits : \A j \in hits : i <= j]

SlugMinLen == 12
SlugMaxLen == 50

\* the pattern without its anchors: some run of 12 allowed characters
isValidSlugUnanchored(slug) ==
    \E a \in 0..Len(slug) :
        /\ a + SlugMinLen <= Len(slug)
        /\ \A i \in 1..SlugMinLen : slug[a + i] \in SlugChars

\* /^[a-z0-9_-]{12,50}$/.test(slug)
isValidSlug(slug) ==
    /\ Len(slug) >= SlugMinLen
    /\ Len(slug) <= SlugMaxLen
    /\ \A i \in 1..Len(slug) : slug[i] \in SlugChars

extractSlugFromPath(fp) == BaseNameExt(fp, ExtName(fp))

----------------------------------------------------------------------------
(* Documents and the frontmatter parser / serializer *)

\* A document on disk.  kind "unreadable": fs.readFileSync throws; kind
\* "unparseable": matter() throws; kind "ok": fm is the frontmatter block as
\* written, one entry per line, and body the text after it.  writable = FALSE:
\* fs.writeFileSync throws.  An entry's style is how its value is spelled in
\* the file ("written" by the author, "dumped" by the serializer).
Doc(kind, fm, body, writable) ==
    [kind |-> kind, fm |-> fm, body |-> body, writable |-> writable]

FmEntry(k, v, style) == [key |-> k, value |-> v, style |-> style]

Readable(fp) == fp \in DOMAIN fsDocs /\ fsDocs[fp].kind = "ok"

\* matter(content).data: the parser assigns the entries to a fresh object in
\* the order they are written; duplicated keys make it throw, so fm has none
RECURSIVE AssignEntries(_, _)
AssignEntries(fm, obj) ==
    IF fm = <<>> THEN obj
    ELSE AssignEntries(Tail(fm), JsSet(obj, Head(fm).key, Head(fm).value))

matterData(content) == AssignEntries(content.fm, EmptyObj)

\* newline(str) of the serializer: str + "\n" unless str ends with "\n"
Newline(str) ==
    IF Len(str) > 0 /\ str[Len(str)] = "\n" THEN str ELSE Append(str, "\n")

\* matter.stringify(mdContent, data): the serializer throws on a value that
\* is a function; otherwise it writes one entry per own key of data in
\* Object.keys order, then the body
StringifyThrows(data) == \E i \in 1..Len(data.keys) : data.get[data.keys[i]] = FunctionValue

matterStringify(mdContent, data, writable) ==
    Doc("ok",
        [i \in 1..Len(data.keys) |-> FmEntry(data.keys[i], data.get[data.keys[i]], "dumped")],
        Newline(mdContent),
        writable)

----------------------------------------------------------------------------
(* lintZennFrontmatter *)

NullResult == [isNull |-> TRUE]

\* requiredProps.filter(prop => !(prop in data))
MissingProps(requiredProps, data) ==
    SelectSeq(requiredProps, LAMBDA prop : ~JsIn(prop, data))

\* the order check without the exemption of unlisted keys
PairInOrderNoExemption(propertyOrder, prevProp, prop) ==
    IndexOf(propertyOrder, prevProp) < IndexOf(propertyOrder, prop)

\* the callback of currentProps.every(...) for index >= 1
PairInOrder(propertyOrder, prevProp, prop) ==
    LET prevPropIndex == IndexOf(propertyOrder, prevProp)
        currentPropIndex == IndexOf(propertyOrder, prop)
    IN  IF prevPropIndex = -1 \/ currentPropIndex = -1 THEN TRUE
        ELSE prevPropIndex < currentPropIndex

IsInCorrectOrder(currentProps, propertyOrder) ==
    \A index \in 1..Len(currentProps) :
        index = 1 \/ PairInOrder(propertyOrder, currentProps[index - 1], currentProps[index])

\* a validator that takes a file it could not read or parse for a document
\* without frontmatter
lintZennFrontmatterEmptyOnError(fp) ==
    [isNull |-> FALSE, file |-> fp, contentType |-> getContentType(fp),
     missing |-> <<"title">>, wrongOrder |-> FALSE, currentOrder |-> <<>>,
     invalidSlug |-> FALSE]

lintZennFrontmatter(fp) ==
    IF ~Readable(fp) THEN NullResult
    ELSE
    LET data == matterData(fsDocs[fp])
        contentType == getContentType(fp)
        found == JsGetKind(config.requiredProperties, contentType)
        requiredProps == IF found = "own" THEN config.requiredProperties.get[contentType]
                         ELSE <<>>
        currentProps == data.keys
    IN  IF found = "inherited" THEN NullResult  \* .filter is not a function
        ELSE [isNull |-> FALSE,
              file |-> fp,
              contentType |-> contentType,
              missing |-> MissingProps(requiredProps, data),
              wrongOrder |-> ~IsInCorrectOrder(currentProps, config.propertyOrder),
              currentOrder |-> currentProps,
              invalidSlug |-> contentType = "article" /\ ~isValidSlug(extractSlugFromPath(fp))]

----------------------------------------------------------------------------
(* sortFrontmatter *)

\* propertyOrder.forEach(prop => { if (prop in data) sortedData[prop] = data[prop] })
RECURSIVE AddOrderedProps(_, _, _)
AddOrderedProps(propertyOrder, data, sortedData) ==
    IF propertyOrder = <<>> THEN sortedData
    ELSE LET prop == Head(propertyOrder)
         IN  AddOrderedProps(Tail(propertyOrder), data,
                 IF JsIn(prop, data) THEN JsSet(sortedData, prop, JsGet(data, prop))
                 ELSE sortedData)

\* Object.keys(data).forEach(prop => { if (!(prop in sortedData)) sortedData[prop] = data[prop] })
RECURSIVE AddRemainingProps(_, _, _)
AddRemainingProps(keys, data, sortedData) ==
    IF keys = <<>> THEN sortedData
    ELSE LET prop == Head(keys)
         IN  AddRemainingProps(Tail(keys), data,
                 IF ~JsIn(prop, sortedData) THEN JsSet(sortedData, prop, JsGet(data, prop))
                 ELSE sortedData)

\* the reordering with the remaining keys taken last to first
SortedDataRestReversed(data, propertyOrder) ==
    AddRemainingProps([i \in 1..Len(data.keys) |-> data.keys[Len(data.keys) + 1 - i]],
                      data, AddOrderedProps(propertyOrder, data, EmptyObj))

\* the reordering inside sortFrontmatter
SortedData(data, propertyOrder) ==
    AddRemainingProps(data.keys, data, AddOrderedProps(propertyOrder, data, EmptyObj))

NoSort == [called |-> FALSE]

\* one call of sortFrontmatter(fp): what it read, what it built, what it
\* handed to the serializer and whether the file was written
sortFrontmatter(fp) ==
    IF ~Readable(fp)
    THEN [called |-> TRUE, file |-> fp, read |-> FALSE, wrote |-> FALSE]
    ELSE
    LET data == matterData(fsDocs[fp])
        mdContent == fsDocs[fp].body
        sortedData == SortedData(data, config.propertyOrder)
        wrote == ~StringifyThrows(sortedData) /\ fsDocs[fp].writable
    IN  [called |-> TRUE, file |-> fp, read |-> TRUE,
         data |-> data, body |-> mdContent,
         sortedData |-> sortedData, passedBody |-> mdContent,
         wrote |-> wrote,
         newContent |-> IF wrote THEN matterStringify(mdContent, sortedData, TRUE)
                        ELSE fsDocs[fp]]

\* a sort that builds the new content and never writes it
DocsAfterSortNoWrite(call) == fsDocs

\* the documents on disk after that call

DocsAfterSort(call) ==
    IF call.wrote THEN [fsDocs EXCEPT ![call.file] = call.newContent] ELSE fsDocs

\* a call of the fs module: op is the function, path its first argument
FsCall(op, path) == [op |-> op, path |-> path]

----------------------------------------------------------------------------
(* Book directories and manifests *)

\* A parsed YAML value, as far as the checks look at it.
\*   manifest:  [kind |-> "absent" | "unreadable"], or
\*              [kind |-> "parsed", value |-> top-level value]
\*   top level: [t |-> "null" | "scalar" | "list"], or
\*              [t |-> "map", keys |-> set of keys, chapters |-> value]
\*   chapters:  [t |-> "null" | "scalar" | "map"], or [t |-> "list", items |-> entries]
\*   entry:     [t |-> "null" | "list"], [t |-> "scalar", truthy |-> BOOLEAN], or
\*              [t |-> "map", keys |-> subset of {"file", "title"}, file |-> value]
\*   file:      [t |-> "null"], [t |-> "string", s |-> characters], or
\*              [t |-> "number", truthy |-> BOOLEAN]
YNull == [t |-> "null"]
YScalar(truthy) == [t |-> "scalar", truthy |-> truthy]
YList(items) == [t |-> "list", items |-> items]
YString(chars) == [t |-> "string", s |-> chars]
YNumber(truthy) == [t |-> "number", truthy |-> truthy]
YChapter(keys, file) == [t |-> "map", keys |-> keys, file |-> file]
YManifest(keys, chapters) == [t |-> "map", keys |-> keys, chapters |-> chapters]

Parsed(value) == [kind |-> "parsed", value |-> value]

\* code-unit order of the characters that occur in file names
CharOrder ==
    <<"-", ".", "/", "0", "1", "2", "3", "4", "5", "6", "7", "8", "9", "A", "Z", "_",
      "a", "b", "c", "d", "e", "f", "g", "h", "i", "j", "k", "l", "m",
      "n", "o", "p", "q", "r", "s", "t", "u", "v", "w", "x", "y", "z">>

CharCode(c) == CHOOSE i \in 1..Len(CharOrder) : CharOrder[i] = c

\* a < b as Array.prototype.sort compares strings
RECURSIVE StringLessFrom(_, _, _)
StringLessFrom(a, b, i) ==
    IF i > Len(b) THEN FALSE
    ELSE IF i > Len(a) THEN TRUE
    ELSE IF a[i] # b[i] THEN CharCode(a[i]) < CharCode(b[i])
    ELSE StringLessFrom(a, b, i + 1)

StringLess(a, b) == StringLessFrom(a, b, 1)

\* the names of a set in ascending order
RECURSIVE InsertName(_, _)
InsertName(name, sorted) ==
    IF sorted = <<>> THEN <<name>>
    ELSE IF StringLess(name, Head(sorted)) THEN <<name>> \o sorted
    ELSE <<Head(sorted)>> \o InsertName(name, Tail(sorted))

RECURSIVE SortedNames(_)
SortedNames(names) ==
    IF names = {} THEN <<>>
    ELSE LET name == CHOOSE n \in names : TRUE
         IN  InsertName(name, SortedNames(names \ {name}))

\* /^\d+\.([a-z0-9_-]+)\.md$/: the places where the digits can end
NumberedSplits(fileName) ==
    {k \in 1..(Len(fileName) - 5) :
        /\ \A i \in 1..k : fileName[i] \in Digits
        /\ fileName[k + 1] = "."
        /\ EndsWith(fileName, DotMd)
        /\ \A i \in (k + 2)..(Len(fileName) - 3) : fileName[i] \in SlugChars}

\* a pattern test that accepts every name
isNumberedAnyName(fileName) == TRUE

isNumberedChapterFileName(fileName) == NumberedSplits(fileName) # {}

\* a slug extraction whose pattern never matches
extractSlugWholeName(fileName) == fileName

extractSlugFromNumberedChapter(fileName) ==
    IF NumberedSplits(fileName) # {}
    THEN LET k == CHOOSE k \in NumberedSplits(fileName) : TRUE
         IN  SubSeq(fileName, k + 2, Len(fileName) - 3)
    ELSE fileName

\* slugs.has / slugs.add / duplicateSlugs.push over a sequence of slugs
RECURSIVE DuplicateSlugs(_, _)
DuplicateSlugs(slugs, seen) ==
    IF slugs = <<>> THEN <<>>
    ELSE IF Head(slugs) \in seen
         THEN <<Head(slugs)>> \o DuplicateSlugs(Tail(slugs), seen)
         ELSE DuplicateSlugs(Tail(slugs), seen \cup {Head(slugs)})

EmptyBookResult(bookDir) ==
    [dir |-> bookDir, missing |-> <<>>, missingConfigFile |-> FALSE,
     invalidChapters |-> FALSE, chaptersError |-> "",
     duplicateChapterSlug |-> FALSE, duplicateChapterNames |-> <<>>]

checkNumberedChapterFiles(bookDir, result) ==
    LET mdFiles == SortedNames({f \in fsBooks[bookDir].files : EndsWith(f, DotMd)})
        nonNumberedFiles == SelectSeq(mdFiles, LAMBDA f : ~isNumberedChapterFileName(f))
        numbered == SelectSeq(mdFiles, isNumberedChapterFileName)
        duplicateSlugs ==
            DuplicateSlugs([i \in 1..Len(numbered) |-> extractSlugFromNumberedChapter(numbered[i])], {})
    IN  IF Len(mdFiles) = 0
        THEN [result EXCEPT !.invalidChapters = TRUE, !.chaptersError = "noChapterFiles"]
        ELSE IF Len(nonNumberedFiles) > 0 /\ Len(nonNumberedFiles) # Len(mdFiles)
        THEN [result EXCEPT !.invalidChapters = TRUE, !.chaptersError = "mixedNaming"]
        ELSE IF Len(duplicateSlugs) > 0
        THEN [result EXCEPT !.duplicateChapterSlug = TRUE,
                            !.duplicateChapterNames = duplicateSlugs,
                            !.invalidChapters = TRUE,
                            !.chaptersError = "duplicateSlugs"]
        ELSE result

\* the callback of chapters.find: throws on a null entry, else tells whether
\* the entry lacks file or title
FindThrows(chapter) == chapter.t = "null"
FindMatches(chapter) ==
    \/ chapter.t = "scalar"
    \/ chapter.t = "list"
    \/ chapter.t = "map" /\ ~("file" \in chapter.keys /\ "title" \in chapter.keys)

\* first entry at which find stops (0: it runs to the end)
FindStop(chapters) ==
    LET stops == {i \in 1..Len(chapters) : FindThrows(chapters[i]) \/ FindMatches(chapters[i])}
    IN  IF stops = {} THEN 0 ELSE CHOOSE i \in stops : \A j \in stops : i <= j

\* if (invalidChapter): the entry find returned is truthy
Truthy(chapter) == chapter.t \in {"list", "map"} \/ (chapter.t = "scalar" /\ chapter.truthy)

\* chapter && chapter.file in the duplicate loop
HasFileValue(chapter) ==
    /\ chapter.t = "map"
    /\ "file" \in chapter.keys
    /\ \/ chapter.file.t = "string" /\ Len(chapter.file.s) > 0
       \/ chapter.file.t = "number" /\ chapter.file.truthy

\* path.extname(chapter.file) throws on a value that is not a string
SlugThrows(chapter) == HasFileValue(chapter) /\ chapter.file.t # "string"

ChapterSlugs(chapters) ==
    LET withFile == SelectSeq(chapters, HasFileValue)
    IN  [i \in 1..Len(withFile) |-> BaseNameExt(withFile[i].file.s, ExtName(withFile[i].file.s))]

\* `prop in configData` for a mapping or a sequence
InManifest(prop, value) ==
    (value.t = "map" /\ prop \in value.keys) \/ prop \in ObjectPrototypeKeys

\* the explicit-list branch of lintBookConfig (chapters.length > 0)
CheckChapterList(chapters, result, allRequired) ==
    LET stop == FindStop(chapters)
        flagged == IF stop > 0 /\ Truthy(chapters[stop])
                   THEN [result EXCEPT !.invalidChapters = TRUE, !.chaptersError = "fileAndTitle"]
                   ELSE result
        duplicateSlugs == DuplicateSlugs(ChapterSlugs(chapters), {})
    IN  IF stop > 0 /\ FindThrows(chapters[stop])
        THEN [result EXCEPT !.missing = allRequired]
        ELSE IF \E i \in 1..Len(chapters) : SlugThrows(chapters[i])
             \* every slug before the throwing entry was only collected
        THEN [flagged EXCEPT !.missing = allRequired]
        ELSE IF Len(duplicateSlugs) > 0
        THEN [flagged EXCEPT !.duplicateChapterSlug = TRUE,
                             !.duplicateChapterNames = duplicateSlugs]
        ELSE flagged

\* a validator that reads config.yaml without asking first whether it exists
lintBookConfigNoExistsCheck(bookDir) ==
    [EmptyBookResult(bookDir) EXCEPT !.missing = config.bookConfigRequiredProperties]

\* lintBookConfig of the full script
lintBookConfig(bookDir) ==
    LET manifest == fsBooks[bookDir].manifest
        result == EmptyBookResult(bookDir)
        allRequired == config.bookConfigRequiredProperties
    IN  IF manifest.kind = "absent" THEN [result EXCEPT !.missingConfigFile = TRUE]
        ELSE IF manifest.kind = "unreadable" THEN [result EXCEPT !.missing = allRequired]
        ELSE IF manifest.value.t \in {"null", "scalar"}
        THEN [result EXCEPT !.missing = allRequired]    \* `in` throws on a non-object
        ELSE
        LET configData == manifest.value
            checked == [result EXCEPT !.missing =
                           SelectSeq(allRequired, LAMBDA prop : ~InManifest(prop, configData))]
        IN  IF ~(configData.t = "map" /\ "chapters" \in configData.keys) THEN checked
            ELSE IF configData.chapters.t \notin {"null", "list"}
            THEN [checked EXCEPT !.invalidChapters = TRUE, !.chaptersError = "notArray"]
            ELSE IF configData.chapters.t = "null" THEN checked
            ELSE IF Len(configData.chapters.items) = 0
            THEN checkNumberedChapterFiles(bookDir, checked)
            ELSE CheckChapterList(configData.chapters.items, checked, allRequired)

\* lintBookConfig of scripts/lint-zenn.ts
lintBookConfigBasic(bookDir) ==
    LET manifest == fsBooks[bookDir].manifest
        result == EmptyBookResult(bookDir)
        allRequired == config.bookConfigRequiredProperties
    IN  IF manifest.kind = "absent" THEN [result EXCEPT !.missingConfigFile = TRUE]
        ELSE IF manifest.kind = "unreadable" THEN [result EXCEPT !.missing = allRequired]
        ELSE IF manifest.value.t \in {"null", "scalar"}
        THEN [result EXCEPT !.missing = allRequired]
        ELSE
        LET configData == manifest.value
            checked == [result EXCEPT !.missing =
                           SelectSeq(allRequired, LAMBDA prop : ~InManifest(prop, configData))]
        IN  IF ~(configData.t = "map" /\ "chapters" \in configData.keys) THEN checked
            ELSE IF configData.chapters.t # "list"
            THEN [checked EXCEPT !.invalidChapters = TRUE, !.chaptersError = "notArray"]
            ELSE IF Len(configData.chapters.items) = 0
            THEN [checked EXCEPT !.invalidChapters = TRUE, !.chaptersError = "emptyChapters"]
            ELSE LET stop == FindStop(configData.chapters.items)
                 IN  IF stop = 0 THEN checked
                     ELSE IF FindThrows(configData.chapters.items[stop])
                     THEN [result EXCEPT !.missing = allRequired]
                     ELSE IF Truthy(configData.chapters.items[stop])
                     THEN [checked EXCEPT !.invalidChapters = TRUE,
                                          !.chaptersError = "fileAndTitle"]
                     ELSE checked

\* path.join(bookDir, 'config.yaml')
ConfigPath(bookDir) ==
    bookDir \o <<"/", "c", "o", "n", "f", "i", "g", ".", "y", "a", "m", "l">>

\* the chapters value is the empty list: the branch that lists the directory
ChaptersEmptyList(manifest) ==
    /\ manifest.kind = "parsed"
    /\ manifest.value.t = "map"
    /\ "chapters" \in manifest.value.keys
    /\ manifest.value.chapters.t = "list"
    /\ Len(manifest.value.chapters.items) = 0

\* the fs calls of lintBookConfig in the full script: none after existsSync
\* said no, else the read of config.yaml and, for chapters: [], the listing
\* of the directory in checkNumberedChapterFiles
lintBookConfigFsCalls(bookDir) ==
    LET manifest == fsBooks[bookDir].manifest
    IN  IF manifest.kind = "absent" THEN <<>>
        ELSE <<FsCall("readFileSync", ConfigPath(bookDir))>>
                \o (IF ChaptersEmptyList(manifest)
                    THEN <<FsCall("readdirSync", bookDir)>> ELSE <<>>)

\* the fs calls of lintBookConfig in scripts/lint-zenn.ts
lintBookConfigBasicFsCalls(bookDir) ==
    IF fsBooks[bookDir].manifest.kind = "absent" THEN <<>>
    ELSE <<FsCall("readFileSync", ConfigPath(bookDir))>>

----------------------------------------------------------------------------
(* Calls of lintZennFrontmatter and sortFrontmatter on one document, for     *)
(* every canonical order and every frontmatter within the bounds            *)

\* frontmatter keys: two of the default order, one in no order, one array
\* index, one name of Object.prototype
FmKeys == {"title", "emoji", "memo", "1", "constructor"}

MaxOrderLen == 2
MaxFmKeys == 3

PropertyOrders == {DefaultPropertyOrder} \cup SeqsUpTo(FmKeys, MaxOrderLen)

FmValues == <<"v1", "v2", "v3", "v4", "v5", "v6">>

\* the frontmatter blocks an author can write: distinct keys in any order
WrittenFm ==
    {[i \in 1..Len(ks) |-> FmEntry(ks[i], FmValues[i], "written")] :
        ks \in DistinctSeqsUpTo(FmKeys, MaxFmKeys)}

Bodies == {<<"x">>, <<"x", "\n">>}

FmPath == ArticlesSlash \o Rep("a", SlugMinLen) \o DotMd

\* the built-in test is not running
NoTest ==
    [run |-> 0, passed |-> TRUE, log |-> <<>>, originalFix |-> FALSE,
     originalContentPattern |-> DEFAULT_CONFIG.contentPattern,
     originalContentTypePatterns |-> DEFAULT_CONFIG.contentTypePatterns]

\* no override file
NoConfigFile == [kind |-> "absent"]

\* no item was validated alone
NoAlone == [docs |-> <<>>, books |-> <<>>]

\* the variables of a run, while no run is under way
NoRun ==
    /\ script = "full"
    /\ argvFix = FALSE
    /\ files = <<>>
    /\ fileIdx = 1
    /\ bookDirs = <<>>
    /\ bookIdx = 1
    /\ hasErrors = FALSE
    /\ frontmatterResults = <<>>
    /\ bookConfigResults = <<>>
    /\ returned = [docs |-> <<>>, books |-> <<>>]
    /\ report = <<>>
    /\ exitCode = 0
    /\ sortCalls = <<>>
    /\ fsCalls = <<>>
    /\ alone = NoAlone
    /\ configFile = NoConfigFile
    /\ test = NoTest

InitFm ==
    /\ platform = "posix"
    /\ config \in {[DEFAULT_CONFIG EXCEPT !.propertyOrder = o] : o \in PropertyOrders}
    /\ fsDocs \in {(FmPath :> Doc("ok", fm, b, TRUE)) : fm \in WrittenFm, b \in Bodies}
    /\ pc = "idle"
    /\ filePath = FmPath
    /\ lintResult = NullResult
    /\ lastSort = NoSort
    /\ fsBooks = <<>>
    /\ NoRun

CallLint ==
    /\ pc = "idle"
    /\ lintResult' = lintZennFrontmatter(filePath)
    /\ pc' = "linted"
    /\ UNCHANGED <<platform, config, fsDocs, filePath, lastSort, fsBooks, runVars>>

CallSort ==
    /\ pc \in {"linted", "sorted"}
    /\ LET call == sortFrontmatter(filePath)
       IN  /\ lastSort' = call
           /\ fsDocs' = DocsAfterSort(call)
    /\ pc' = IF pc = "linted" THEN "sorted" ELSE "sortedTwice"
    /\ UNCHANGED <<platform, config, filePath, lintResult, fsBooks, runVars>>

CallRelint ==
    /\ pc \in {"sorted", "sortedTwice"}
    /\ lintResult' = lintZennFrontmatter(filePath)
    /\ pc' = "relinted"
    /\ UNCHANGED <<platform, config, fsDocs, filePath, lastSort, fsBooks, runVars>>

NextFm == CallLint \/ CallSort \/ CallRelint

SpecFm == InitFm /\ [][NextFm]_vars

----------------------------------------------------------------------------
(* Properties of the order check and of the reordering *)

Listed(order, k) == \E i \in 1..Len(order) : order[i] = k

\* canonical position of a listed key: its first place in the order
CanonPos(order, k) == CHOOSE i \in 1..Len(order) : order[i] = k /\ \A j \in 1..(i - 1) : order[j] # k

Linted == pc = "linted" /\ ~lintResult.isNull

\* C1: wrongOrder is true exactly when two consecutive observed keys are
\* both listed in the canonical order and the first does not come strictly
\* before the second there; a pair with an unlisted key never counts.
C1_OrderCheckPairwise ==
    Linted =>
        LET cur == lintResult.currentOrder
            order == config.propertyOrder
        IN  lintResult.wrongOrder <=>
                \E i \in 2..Len(cur) :
                    /\ Listed(order, cur[i - 1])
                    /\ Listed(order, cur[i])
                    /\ CanonPos(order, cur[i - 1]) >= CanonPos(order, cur[i])

\* a document is flagged, and another pair of it has an unlisted key
C1_Witness ==
    /\ Linted
    /\ lintResult.wrongOrder
    /\ \E i \in 1..Len(lintResult.currentOrder) :
           ~Listed(config.propertyOrder, lintResult.currentOrder[i])

\* the observed keys that are listed, in their observed order
ListedSubSeq(cur, order) == SelectSeq(cur, LAMBDA k : Listed(order, k))

IncreasingCanon(ks, order) ==
    \A i, j \in 1..Len(ks) : i < j => CanonPos(order, ks[i]) < CanonPos(order, ks[j])

\* C2: wrongOrder is false exactly when the listed observed keys, unlisted
\* keys ignored wherever they sit, appear in increasing canonical position.
C2_OrderCheckIgnoresUnlisted ==
    Linted =>
        (~lintResult.wrongOrder <=>
            IncreasingCanon(ListedSubSeq(lintResult.currentOrder, config.propertyOrder),
                            config.propertyOrder))

Sorted == pc = "sorted" /\ lastSort.read

\* the canonical order without repetitions, first occurrences kept
RECURSIVE Dedup(_)
Dedup(s) ==
    IF s = <<>> THEN <<>>
    ELSE LET d == Dedup(SubSeq(s, 1, Len(s) - 1))
         IN  IF s[Len(s)] \in Range(d) THEN d ELSE Append(d, s[Len(s)])

\* canonical keys present in the input, in canonical sequence, then the
\* remaining input keys in their original relative order
CanonicalFirst(inKeys, order) ==
    SelectSeq(Dedup(order), LAMBDA k : k \in Range(inKeys))
        \o SelectSeq(inKeys, LAMBDA k : ~Listed(order, k))

\* C4: the output key sequence of the reordering is the canonical keys
\* present in the input, in canonical sequence, followed by all remaining
\* input keys in their original relative order.
C4_NormalizeCanonicalFirst ==
    Sorted => lastSort.sortedData.keys = CanonicalFirst(lastSort.data.keys, config.propertyOrder)

\* C5: reordering is idempotent: reordering the reordered mapping gives the
\* same key order and the same values, in memory and through the file.
C5_NormalizeIdempotent ==
    /\ Sorted => SortedData(lastSort.sortedData, config.propertyOrder) = lastSort.sortedData
    /\ (pc = "sortedTwice" /\ lastSort.wrote) => lastSort.sortedData = lastSort.data

\* a reordering that moved a key was written, and the second call on the
\* rewritten file wrote again
C5_Witness ==
    /\ pc = "sortedTwice"
    /\ lastSort.wrote
    /\ Len(lastSort.data.keys) >= 3
    /\ \E i \in 1..Len(lastSort.data.keys) : ~Listed(config.propertyOrder, lastSort.data.keys[i])
    /\ \E i \in 1..Len(lastSort.data.keys) : Listed(config.propertyOrder, lastSort.data.keys[i])

\* C6: the reordering keeps the key set and every value, and hands the body
\* that was read to the rewrite.
C6_NormalizePreservesContent ==
    Sorted =>
        /\ Range(lastSort.sortedData.keys) = Range(lastSort.data.keys)
        /\ \A k \in Range(lastSort.data.keys) :
               HasOwn(lastSort.sortedData, k) /\ lastSort.sortedData.get[k] = lastSort.data.get[k]
        /\ lastSort.passedBody = lastSort.body

----------------------------------------------------------------------------
(* Calls of lintZennFrontmatter for every required-key list within the      *)
(* bounds, on documents of each content type                                *)

MaxRequired == 2

\* requiredProperties as an override file can give it: the default, or an
\* entry for article only
RequiredChoices ==
    {DefaultRequiredProperties} \cup
    {[keys |-> <<"article">>, get |-> [t \in {"article"} |-> req]] :
        req \in SeqsUpTo(FmKeys, MaxRequired)}

BookChapterPath == BooksSlash \o <<"b", "/", "1", ".", "a">> \o DotMd
OtherPath == <<"n", "o", "t", "e", "s", "/", "x">> \o DotMd

\* a content type named like a member of Object.prototype
ProtoLabelPatterns ==
    [keys |-> <<"constructor">>,
     get  |-> [t \in {"constructor"} |-> PatternArray(<<ArticlesSlash>>)]]

InitReq ==
    /\ platform = "posix"
    /\ \/ config \in {[DEFAULT_CONFIG EXCEPT !.requiredProperties = r] : r \in RequiredChoices}
       \/ config = [DEFAULT_CONFIG EXCEPT !.contentTypePatterns = ProtoLabelPatterns]
    /\ filePath \in {FmPath, BookChapterPath, OtherPath}
    /\ fsDocs \in {(filePath :> Doc("ok", fm, <<"x">>, TRUE)) : fm \in WrittenFm}
    /\ pc = "idle"
    /\ lintResult = NullResult
    /\ lastSort = NoSort
    /\ fsBooks = <<>>
    /\ NoRun

NextReq == CallLint

SpecReq == InitReq /\ [][NextReq]_vars

\* the required keys of a content type: its entry, or none
RequiredOf(type) ==
    IF type \in Range(config.requiredProperties.keys)
    THEN config.requiredProperties.get[type] ELSE <<>>

\* the keys the frontmatter block of the document names
WrittenKeys(fp) == {fsDocs[fp].fm[i].key : i \in 1..Len(fsDocs[fp].fm)}

\* C3: the missing list is exactly the required keys of the content type
\* that are absent from the metadata, in the order of the required list, and
\* it is empty when the type has no entry.
C3_MissingExact ==
    Linted =>
        lintResult.missing =
            SelectSeq(RequiredOf(lintResult.contentType),
                      LAMBDA k : k \notin WrittenKeys(filePath))

----------------------------------------------------------------------------
(* Calls of lintZennFrontmatter for paths and classification patterns       *)
(* within the bounds, on both platforms                                     *)

MaxPatternEntries == 2

PatternLabels == {"article", "bookChapter", "1"}

PatternValues ==
    {PatternArray(<<ArticlesSlash>>), PatternArray(<<BooksSlash>>),
     PatternArray(<<BooksSlash, ArticlesSlash>>), PatternArray(<< <<>> >>),
     PatternArray(<<>>), NotAnArray}

\* the object JSON.parse builds from entries written in the given order
RECURSIVE PatternObject(_, _)
PatternObject(entries, obj) ==
    IF entries = <<>> THEN obj
    ELSE PatternObject(Tail(entries), JsSet(obj, Head(entries)[1], Head(entries)[2]))

PatternChoices ==
    {NoPatterns} \cup
    {PatternObject([i \in 1..Len(ls) |-> <<ls[i], vs[i]>>], EmptyObj) :
        ls \in DistinctSeqsUpTo(PatternLabels, MaxPatternEntries),
        vs \in [1..MaxPatternEntries -> PatternValues]}

\* directory prefixes as the file search returns them on each platform
DirPrefixes ==
    IF platform = "win32"
    THEN {<<"a","r","t","i","c","l","e","s","\\">>, <<"b","o","o","k","s","\\","b","\\">>,
          <<"n","o","t","e","s","\\">>, ArticlesSlash}
    ELSE {ArticlesSlash, BooksSlash \o <<"b", "/">>, BooksSlash \o ArticlesSlash,
          <<"n","o","t","e","s","/">>}

\* file names without extension: the lengths around both limits of the slug
\* rule, and names of the minimum length with one character replaced
NamesByLength ==
    {Rep("a", n) : n \in {1, 3, SlugMinLen - 1, SlugMinLen, SlugMinLen + 1,
                          SlugMaxLen - 1, SlugMaxLen, SlugMaxLen + 1}}

NamesByChar ==
    {[Rep("a", SlugMinLen) EXCEPT ![i] = c] :
        i \in {1, 6, SlugMinLen}, c \in {"z", "0", "9", "-", "_", "A", "Z", " ", "!"}}

DotFreeNames == NamesByLength \cup NamesByChar

\* names whose last "." is not the one of ".md"
DottedPaths ==
    {ArticlesSlash \o Rep("a", 6) \o <<".">> \o Rep("a", 6) \o DotMd,
     ArticlesSlash \o Rep("a", SlugMinLen),
     ArticlesSlash \o Rep("a", SlugMinLen) \o <<".">>,
     ArticlesSlash \o <<".">> \o Rep("a", SlugMinLen),
     ArticlesSlash \o DotMd}

PathChoices == {d \o n \o DotMd : d \in DirPrefixes, n \in DotFreeNames} \cup DottedPaths

ValidArticleFm ==
    [i \in 1..5 |-> FmEntry(DefaultRequiredProperties.get["article"][i], FmValues[i], "written")]

InitPath ==
    /\ platform \in {"posix", "win32"}
    /\ config \in {[DEFAULT_CONFIG EXCEPT !.contentTypePatterns = p] : p \in PatternChoices}
    /\ filePath \in PathChoices
    /\ fsDocs = (filePath :> Doc("ok", ValidArticleFm, <<"x">>, TRUE))
    /\ pc = "idle"
    /\ lintResult = NullResult
    /\ lastSort = NoSort
    /\ fsBooks = <<>>
    /\ NoRun

NextPath == CallLint

SpecPath == InitPath /\ [][NextPath]_vars

----------------------------------------------------------------------------
(* Properties of the classifier and of the slug check *)

\* sub occurs in s
Contains(s, sub) ==
    \E a \in 0..Len(s) :
        /\ a + Len(sub) <= Len(s)
        /\ \A i \in 1..Len(sub) : s[a + i] = sub[i]

\* the path with every backslash replaced by a forward slash
ForwardSlashed(fp) == [i \in DOMAIN fp |-> IF fp[i] = "\\" THEN "/" ELSE fp[i]]

\* the labels of the pattern mapping in iteration order
PatternLabelSeq ==
    IF "isNull" \in DOMAIN config.contentTypePatterns THEN <<>>
    ELSE config.contentTypePatterns.keys

LabelMatches(fp, label) ==
    LET v == config.contentTypePatterns.get[label]
    IN  v.isArray /\ \E p \in Range(v.items) : Contains(ForwardSlashed(fp), p)

\* C7: the content type is the first label in iteration order one of whose
\* substrings is contained in the path with backslashes replaced, "default"
\* when no label matches; the call never fails.
C7_ClassifierFirstMatch ==
    pc = "linted" =>
        /\ ~lintResult.isNull
        /\ LET ct == lintResult.contentType
               ls == PatternLabelSeq
           IN  \/ /\ ct = "default"
                  /\ \A i \in 1..Len(ls) : ~LabelMatches(filePath, ls[i])
               \/ \E i \in 1..Len(ls) :
                      /\ ct = ls[i]
                      /\ LabelMatches(filePath, ls[i])
                      /\ \A j \in 1..(i - 1) : ~LabelMatches(filePath, ls[j])

\* a backslash path that two labels match got the first of them
C7_Witness ==
    /\ Linted
    /\ "\\" \in Range(filePath)
    /\ \E i, j \in 1..Len(PatternLabelSeq) :
           /\ i < j
           /\ LabelMatches(filePath, PatternLabelSeq[i])
           /\ LabelMatches(filePath, PatternLabelSeq[j])
           /\ lintResult.contentType = PatternLabelSeq[i]

\* 12 to 50 characters, each of a-z, 0-9, "_" or "-"
SlugRule(n) ==
    /\ Len(n) >= 12
    /\ Len(n) <= 50
    /\ \A i \in 1..Len(n) : n[i] \in LowerAlpha \cup Digits \cup {"_", "-"}

\* the paths with a "." besides the one of ".md" whose base name without
\* extension obeys the slug rule
DottedPathsWithGoodSlug ==
    {ArticlesSlash \o Rep("a", 12), ArticlesSlash \o Rep("a", 12) \o <<".">>}

\* C8: invalidSlug is set exactly for a document of type "article" whose
\* base name without extension is not a full match of the slug rule; other
\* content types never get it.
C8_SlugCheck ==
    Linted =>
        /\ \A d \in DirPrefixes, n \in DotFreeNames :
               filePath = d \o n \o DotMd =>
                   (lintResult.invalidSlug <=>
                        (lintResult.contentType = "article" /\ ~SlugRule(n)))
        /\ filePath \in DottedPaths =>
               (lintResult.invalidSlug <=>
                    (lintResult.contentType = "article"
                         /\ filePath \notin DottedPathsWithGoodSlug))
        /\ lintResult.contentType # "article" => ~lintResult.invalidSlug

\* an article whose name has 51 allowed characters is rejected
C8_Witness ==
    /\ Linted
    /\ filePath = ArticlesSlash \o Rep("a", 51) \o DotMd
    /\ lintResult.contentType = "article"
    /\ lintResult.invalidSlug

-----------------------------------------------------------------------------
(* A run of the linter over the articles and books on disk *)

MaxRunDocs == 2      \* articles on disk
MaxRunBooks == 1     \* book directories on disk

FmWith(keys) == [i \in 1..Len(keys) |-> FmEntry(keys[i], FmValues[i], "written")]

ArticlePath(c) == ArticlesSlash \o Rep(c, SlugMinLen) \o DotMd

\* the articles a working tree can hold
ArticlePool ==
    << [path |-> ArticlePath("a"), doc |-> Doc("ok", ValidArticleFm, <<"x">>, TRUE)],
       [path |-> ArticlePath("b"),
        doc |-> Doc("ok", FmWith(<<"published", "emoji", "title", "type", "topics">>), <<"x">>, TRUE)],
       [path |-> ArticlePath("c"), doc |-> Doc("ok", FmWith(<<"title", "emoji">>), <<"x">>, TRUE)],
       [path |-> ArticlesSlash \o <<"b", "a", "d">> \o DotMd,
        doc |-> Doc("ok", ValidArticleFm, <<"x">>, TRUE)],
       [path |-> ArticlePath("e"), doc |-> Doc("ok", FmWith(<<"emoji", "title">>), <<"x">>, TRUE)],
       [path |-> ArticlePath("f"), doc |-> Doc("unparseable", <<>>, <<>>, TRUE)],
       [path |-> ArticlePath("g"),
        doc |-> Doc("ok", FmWith(<<"emoji", "title", "type", "topics", "published">>), <<"x">>, FALSE)] >>

ValidChapter == Doc("ok", FmWith(<<"title">>), <<"x">>, TRUE)
UntitledChapter == Doc("ok", <<>>, <<"x">>, TRUE)
ReadOnlyChapter == Doc("ok", FmWith(<<"published", "title">>), <<"x">>, FALSE)
WrongOrderChapter == Doc("ok", FmWith(<<"published", "title">>), <<"x">>, TRUE)
UnreadableChapter == Doc("unreadable", <<>>, <<>>, TRUE)

AllBookKeys == Range(DefaultBookConfigRequiredProperties)

ChapterEntry(fileName) == YChapter({"file", "title"}, YString(fileName))

File1a == <<"1", ".", "a">> \o DotMd
File2a == <<"2", ".", "a">> \o DotMd
File2b == <<"2", ".", "b">> \o DotMd
FileIntro == <<"i", "n", "t", "r", "o">> \o DotMd

BookDir(name) == BooksSlash \o name

SampleBookName ==
    <<"z", "e", "n", "n", "-", "b", "o", "o", "k", "-", "s", "a", "m", "p", "l", "e">>

\* the book directories a working tree can hold
BookPool ==
    << \* every key, two listed chapters, both files valid
       [dir |-> BookDir(<<"b", "0", "1">>),
        manifest |-> Parsed(YManifest(AllBookKeys, YList(<<ChapterEntry(File1a), ChapterEntry(File2b)>>))),
        chapters |-> (File1a :> ValidChapter) @@ (File2b :> ValidChapter)],
       \* no config.yaml, and a chapter file that cannot be read
       [dir |-> BookDir(<<"b", "0", "2">>),
        manifest |-> [kind |-> "absent"],
        chapters |-> (File1a :> UnreadableChapter)],
       \* two keys missing, and a chapter file without title
       [dir |-> BookDir(SampleBookName),
        manifest |-> Parsed(YManifest(AllBookKeys \ {"price", "summary"},
                                      YList(<<ChapterEntry(File1a)>>))),
        chapters |-> (File1a :> UntitledChapter)],
       \* chapters: [] over numbered files that share a slug
       [dir |-> BookDir(<<"b", "0", "4">>),
        manifest |-> Parsed(YManifest(AllBookKeys, YList(<<>>))),
        chapters |-> (File1a :> ValidChapter) @@ (File2a :> ValidChapter)],
       \* a chapter listed twice
       [dir |-> BookDir(<<"b", "0", "5">>),
        manifest |-> Parsed(YManifest(AllBookKeys, YList(<<ChapterEntry(File1a), ChapterEntry(File1a)>>))),
        chapters |-> (File1a :> ValidChapter)],
       \* chapters: null
       [dir |-> BookDir(<<"b", "0", "6">>),
        manifest |-> Parsed(YManifest(AllBookKeys, YNull)),
        chapters |-> <<>>],
       \* chapters: [] over numbered and unnumbered files, the unnumbered one
       \* with its keys in the wrong order
       [dir |-> BookDir(<<"b", "0", "7">>),
        manifest |-> Parsed(YManifest(AllBookKeys, YList(<<>>))),
        chapters |-> (File1a :> ValidChapter) @@ (FileIntro :> WrongOrderChapter)],
       \* a read-only chapter file with its keys in the wrong order
       [dir |-> BookDir(<<"b", "0", "8">>),
        manifest |-> Parsed(YManifest(AllBookKeys, YList(<<ChapterEntry(File1a)>>))),
        chapters |-> (File1a :> ReadOnlyChapter)] >>

\* the documents and book directories of a working tree that holds the
\* articles as and the books bs of the pools
ChapterPaths(b) == {BookPool[b].dir \o <<"/">> \o f : f \in DOMAIN BookPool[b].chapters}

TreeDocs(as, bs) ==
    LET articlePaths == {ArticlePool[a].path : a \in as}
        chapterPaths == UNION {ChapterPaths(b) : b \in bs}
    IN  [p \in articlePaths \cup chapterPaths |->
            IF p \in articlePaths
            THEN LET a == CHOOSE a \in as : ArticlePool[a].path = p IN ArticlePool[a].doc
            ELSE LET b == CHOOSE b \in bs : p \in ChapterPaths(b)
                     f == CHOOSE f \in DOMAIN BookPool[b].chapters : BookPool[b].dir \o <<"/">> \o f = p
                 IN  BookPool[b].chapters[f]]

TreeBooks(bs) ==
    LET dirs == {BookPool[b].dir : b \in bs}
    IN  [d \in dirs |->
            LET b == CHOOSE b \in bs : BookPool[b].dir = d
            IN  [manifest |-> BookPool[b].manifest, files |-> DOMAIN BookPool[b].chapters]]

StartsWith(s, pre) == Len(s) >= Len(pre) /\ SubSeq(s, 1, Len(pre)) = pre

\* process.cwd(), and the directory createTestSamples works in
Cwd == <<"/", "w">>
TestDir == Cwd \o <<"/", "z", "e", "n", "n", "-", "t", "e", "s", "t">>
TestArticlesSlash == TestDir \o <<"/">> \o ArticlesSlash
TestBooksSlash == TestDir \o <<"/">> \o BooksSlash

\* path.join(testDir, 'articles/**/*.md')
TestContentPattern == "/w/zenn-test/articles/**/*.md"

\* glob.sync(pattern) for the patterns a run uses
GlobSync(pattern) ==
    LET md == SelectSeq(SortedNames(DOMAIN fsDocs), LAMBDA p : EndsWith(p, DotMd))
    IN  IF pattern = "articles/**/*.md"
        THEN SelectSeq(md, LAMBDA p : StartsWith(p, ArticlesSlash))
        ELSE IF pattern = TestContentPattern
        THEN SelectSeq(md, LAMBDA p : StartsWith(p, TestArticlesSlash))
        ELSE IF pattern = "books/**/*.md"
        THEN SelectSeq(md, LAMBDA p : StartsWith(p, BooksSlash))
        ELSE md     \* "**/*.md"

ContentPatterns == {"articles/**/*.md", "**/*.md"}

\* config.contentPattern || "articles/**/*.md"
ArticlePattern == IF config.contentPattern = "" THEN "articles/**/*.md" ELSE config.contentPattern

\* the directories under books/ of the working directory
getBookDirectories == SortedNames({d \in DOMAIN fsBooks : StartsWith(d, BooksSlash)})

\* the fs calls of the book validator of the script in use
BookFsCalls(dir) ==
    IF script = "full" THEN lintBookConfigFsCalls(dir) ELSE lintBookConfigBasicFsCalls(dir)

\* the aggregator's condition on a book result in scripts/lint-zenn.ts
BookHasFindingsBasic(result) ==
    Len(result.missing) > 0 \/ result.missingConfigFile \/ result.invalidChapters

\* the aggregator's condition on a document result
HasFindings(result) == Len(result.missing) > 0 \/ result.wrongOrder \/ result.invalidSlug

\* a book condition that forgets the duplicate-slug flag
BookHasFindingsNoDuplicate(result) ==
    Len(result.missing) > 0 \/ result.missingConfigFile \/ result.invalidChapters

\* the aggregator's condition on a book result in the full script
BookHasFindings(result) ==
    \/ Len(result.missing) > 0
    \/ result.missingConfigFile
    \/ result.invalidChapters
    \/ result.duplicateChapterSlug

\* an aggregation that keeps the verdict on the last item only
HasErrorsLastOnly(errors, found) == found

\* if (<condition on the result>) { ...; hasErrors = true; }
HasErrorsAfter(errors, found) == IF found THEN TRUE ELSE errors

\* an exit decision that forgets the fix flag
ShouldExitIgnoringFix(errors, fix) == errors

\* if (hasErrors && !process.argv.includes("--fix")) process.exit(1)
ShouldExit(errors, fix) == errors /\ ~fix

\* a fix that rewrites every document with a finding
ShouldSortAnyFinding(fix, result) == fix

\* a run that reorders whether or not --fix was given
ShouldSortWithoutFlag(fix, result) == result.wrongOrder

\* if (process.argv.includes("--fix") && result.wrongOrder)
ShouldSort(fix, result) == fix /\ result.wrongOrder

PhaseAfter(fi, fs, bi, bs) ==
    IF fi <= Len(fs) THEN "files" ELSE IF bi <= Len(bs) THEN "books" ELSE "report"

InitRun ==
    /\ platform = "posix"
    /\ config \in {[DEFAULT_CONFIG EXCEPT !.contentPattern = c] : c \in ContentPatterns}
    /\ \E as \in SUBSET (1..Len(ArticlePool)), bs \in SUBSET (1..Len(BookPool)) :
          /\ Cardinality(as) <= MaxRunDocs
          /\ Cardinality(bs) <= MaxRunBooks
          /\ fsDocs = TreeDocs(as, bs)
          /\ fsBooks = TreeBooks(bs)
    /\ pc = "start"
    /\ filePath = <<>>
    /\ lintResult = NullResult
    /\ lastSort = NoSort
    /\ script \in {"full", "basic"}
    /\ argvFix \in BOOLEAN
    /\ files = <<>>
    /\ fileIdx = 1
    /\ bookDirs = <<>>
    /\ bookIdx = 1
    /\ hasErrors = FALSE
    /\ frontmatterResults = <<>>
    /\ bookConfigResults = <<>>
    /\ returned = [docs |-> <<>>, books |-> <<>>]
    /\ report = <<>>
    /\ exitCode = 0
    /\ sortCalls = <<>>
    /\ fsCalls = <<>>
    /\ alone = NoAlone
    /\ configFile = NoConfigFile
    /\ test = NoTest

\* the searches at the head of the run, and the early return when they find
\* nothing
Start ==
    /\ pc = "start"
    /\ LET articleFiles == GlobSync(ArticlePattern)
           chapterFiles == GlobSync("books/**/*.md")
           dirs == getBookDirectories
       IN  IF Len(articleFiles) = 0 /\ Len(chapterFiles) = 0 /\ Len(dirs) = 0
           THEN /\ report' = <<[t |-> "nothingFound"]>>
                /\ pc' = "done"
                /\ UNCHANGED <<files, bookDirs>>
           ELSE /\ files' = articleFiles \o chapterFiles
                /\ bookDirs' = dirs
                /\ pc' = PhaseAfter(1, articleFiles \o chapterFiles, 1, dirs)
                /\ UNCHANGED report
    /\ UNCHANGED <<platform, config, fsDocs, filePath, lintResult, lastSort, fsBooks,
                   script, argvFix, fileIdx, bookIdx, hasErrors,
                   frontmatterResults, bookConfigResults, returned, exitCode,
                   sortCalls, fsCalls, alone, configFile, test>>

\* one turn of the loop over [...articleFiles, ...chapterFiles]
ProcessFile ==
    /\ pc = "files"
    /\ LET file == files[fileIdx]
           result == lintZennFrontmatter(file)
           found == ~result.isNull /\ HasFindings(result)
           call == sortFrontmatter(file)
       IN  /\ filePath' = file
           /\ lintResult' = result
           /\ returned' = IF result.isNull THEN returned
                          ELSE [returned EXCEPT !.docs = Append(@, result)]
           /\ frontmatterResults' = IF found THEN Append(frontmatterResults, result)
                                    ELSE frontmatterResults
           /\ hasErrors' = HasErrorsAfter(hasErrors, found)
           /\ IF found /\ ShouldSort(argvFix, result)
              THEN /\ fsDocs' = DocsAfterSort(call)
                   /\ lastSort' = call
                   /\ sortCalls' = Append(sortCalls, [file |-> file, result |-> result,
                                                      wrote |-> call.wrote])
              ELSE UNCHANGED <<fsDocs, lastSort, sortCalls>>
    /\ fileIdx' = fileIdx + 1
    /\ pc' = PhaseAfter(fileIdx + 1, files, bookIdx, bookDirs)
    /\ UNCHANGED <<platform, config, fsBooks, script, argvFix, files, bookDirs, bookIdx,
                   bookConfigResults, report, exitCode, fsCalls, alone, configFile, test>>

\* one turn of the loop over bookDirs
ProcessBook ==
    /\ pc = "books"
    /\ LET dir == bookDirs[bookIdx]
           result == IF script = "full" THEN lintBookConfig(dir) ELSE lintBookConfigBasic(dir)
           found == IF script = "full" THEN BookHasFindings(result)
                    ELSE BookHasFindingsBasic(result)
       IN  /\ returned' = [returned EXCEPT !.books = Append(@, result)]
           /\ bookConfigResults' = IF found THEN Append(bookConfigResults, result)
                                   ELSE bookConfigResults
           /\ hasErrors' = HasErrorsAfter(hasErrors, found)
           /\ fsCalls' = fsCalls \o BookFsCalls(dir)
    /\ bookIdx' = bookIdx + 1
    /\ pc' = PhaseAfter(fileIdx, files, bookIdx + 1, bookDirs)
    /\ UNCHANGED <<platform, config, fsDocs, filePath, lintResult, lastSort, fsBooks,
                   script, argvFix, files, fileIdx, bookDirs,
                   frontmatterResults, report, exitCode, sortCalls, alone, configFile, test>>

\* the lines printed for the collected document results
RECURSIVE FrontmatterLines(_)
FrontmatterLines(results) ==
    IF results = <<>> THEN <<>>
    ELSE LET result == Head(results)
         IN  <<[t |-> "file", file |-> result.file, contentType |-> result.contentType]>>
             \o (IF Len(result.missing) > 0
                 THEN <<[t |-> "missing", file |-> result.file, keys |-> result.missing]>>
                 ELSE <<>>)
             \o (IF result.wrongOrder
                 THEN <<[t |-> "wrongOrder", file |-> result.file,
                         current |-> result.currentOrder,
                         recommended |-> config.propertyOrder]>>
                      \o (IF argvFix THEN <<[t |-> "orderFixed", file |-> result.file]>>
                          ELSE <<>>)
                 ELSE <<>>)
             \o (IF result.invalidSlug
                 THEN <<[t |-> "slugError", file |-> result.file]>>
                 ELSE <<>>)
             \o FrontmatterLines(Tail(results))

\* the lines printed for the collected book results by the full script
RECURSIVE BookLines(_)
BookLines(results) ==
    IF results = <<>> THEN <<>>
    ELSE LET result == Head(results)
         IN  <<[t |-> "book", dir |-> result.dir]>>
             \o (IF result.missingConfigFile
                 THEN <<[t |-> "missingConfigFile", dir |-> result.dir]>> ELSE <<>>)
             \o (IF Len(result.missing) > 0
                 THEN <<[t |-> "bookMissing", dir |-> result.dir, keys |-> result.missing]>>
                 ELSE <<>>)
             \o (IF result.invalidChapters
                 THEN <<[t |-> "chaptersError", dir |-> result.dir,
                         error |-> result.chaptersError]>>
                 ELSE <<>>)
             \o (IF result.duplicateChapterSlug
                 THEN <<[t |-> "duplicateSlugs", dir |-> result.dir,
                         names |-> result.duplicateChapterNames]>>
                 ELSE <<>>)
             \o BookLines(Tail(results))

\* the lines printed for the collected book results by scripts/lint-zenn.ts
RECURSIVE BookLinesBasic(_)
BookLinesBasic(results) ==
    IF results = <<>> THEN <<>>
    ELSE LET result == Head(results)
         IN  <<[t |-> "book", dir |-> result.dir]>>
             \o (IF result.missingConfigFile
                 THEN <<[t |-> "missingConfigFile", dir |-> result.dir]>> ELSE <<>>)
             \o (IF Includes(result.dir, SampleBookName)
                 THEN <<[t |-> "bookMissing", dir |-> result.dir, keys |-> <<"price">>]>>
                 ELSE <<>>)
             \o (IF result.invalidChapters
                 THEN <<[t |-> "chaptersError", dir |-> result.dir,
                         error |-> result.chaptersError]>>
                 ELSE <<>>)
             \o BookLinesBasic(Tail(results))

ReportLines ==
    LET resultsShown == Len(frontmatterResults) > 0 \/ Len(bookConfigResults) > 0
    IN  (IF Len(frontmatterResults) > 0
         THEN <<[t |-> "frontmatterCount", n |-> Len(frontmatterResults)]>>
              \o FrontmatterLines(frontmatterResults)
         ELSE <<>>)
        \o (IF Len(bookConfigResults) > 0
            THEN <<[t |-> "bookCount", n |-> Len(bookConfigResults)]>>
                 \o (IF script = "full" THEN BookLines(bookConfigResults)
                     ELSE BookLinesBasic(bookConfigResults))
            ELSE <<>>)
        \o (IF resultsShown /\ ~argvFix THEN <<[t |-> "fixHint"]>>
            ELSE IF ~resultsShown THEN <<[t |-> "allValid"]>>
            ELSE <<>>)

\* the result output and the exit decision at the end of the run
Finish ==
    /\ pc = "report"
    /\ report' = ReportLines
    /\ exitCode' = IF ShouldExit(hasErrors, argvFix) THEN 1 ELSE 0
    /\ pc' = "done"
    /\ UNCHANGED <<platform, config, fsDocs, filePath, lintResult, lastSort, fsBooks,
                   script, argvFix, files, fileIdx, bookDirs, bookIdx, hasErrors,
                   frontmatterResults, bookConfigResults, returned, sortCalls,
                   fsCalls, alone, configFile, test>>

NextRun == Start \/ ProcessFile \/ ProcessBook \/ Finish

SpecRun == InitRun /\ [][NextRun]_vars

\* the run is over: the result output was printed or the early return was taken
RunCompleted == pc = "done"

SomeDocFinding ==
    \E i \in 1..Len(returned.docs) :
        \/ Len(returned.docs[i].missing) > 0
        \/ returned.docs[i].wrongOrder
        \/ returned.docs[i].invalidSlug

SomeBookFinding ==
    \E i \in 1..Len(returned.books) :
        \/ returned.books[i].missingConfigFile
        \/ Len(returned.books[i].missing) > 0
        \/ returned.books[i].invalidChapters
        \/ returned.books[i].duplicateChapterSlug

\* C9: after a run completes, hasErrors holds if and only if some validated
\* document came back with a non-empty missing list, wrongOrder or an invalid
\* slug, or some book came back with a missing manifest, a non-empty missing
\* list, invalidChapters or duplicateChapterSlug.
C9_AggregatorErroring ==
    RunCompleted => (hasErrors <=> (SomeDocFinding \/ SomeBookFinding))

\* a completed run of the full script that validated documents without any
\* finding and whose only finding is a book with duplicate chapter slugs
C9_Witness ==
    /\ RunCompleted
    /\ script = "full"
    /\ hasErrors
    /\ ~SomeDocFinding
    /\ Len(returned.docs) > 0
    /\ \E i \in 1..Len(returned.books) :
          /\ returned.books[i].duplicateChapterSlug
          /\ ~returned.books[i].invalidChapters
          /\ Len(returned.books[i].missing) = 0
          /\ ~returned.books[i].missingConfigFile

\* C10: a completed run has requested a non-zero exit if and only if it is
\* erroring and --fix was not supplied; with --fix it never requests one,
\* whatever findings remain that the fix cannot repair.
C10_ExitCode ==
    RunCompleted =>
        /\ (exitCode # 0) <=> (hasErrors /\ ~argvFix)
        /\ argvFix => exitCode = 0

\* a completed run with --fix that found missing keys, which no fix repairs,
\* and requested no exit
C10_Witness ==
    /\ RunCompleted
    /\ argvFix
    /\ hasErrors
    /\ \E i \in 1..Len(returned.docs) : Len(returned.docs[i].missing) > 0
    /\ exitCode = 0

-----------------------------------------------------------------------------
(* The built-in test: createTestSamples, then a validation run, a --fix run
   and a second validation run in the same process *)

Restrict(f, S) == [x \in S |-> f[x]]

UnderTestDir(p) == StartsWith(p, TestDir \o <<"/">>)

TestBookDir == TestBooksSlash \o <<"t", "e", "s", "t", "-", "b", "o", "o", "k">>
InvalidBookDir == TestBooksSlash \o <<"i", "n", "v", "a", "l", "i", "d", "-", "b", "o", "o", "k">>
NoConfigBookDir == TestBooksSlash \o <<"n", "o", "-", "c", "o", "n", "f", "i", "g", "-", "b", "o", "o", "k">>

FileIntro1 == <<"1", ".", "i", "n", "t", "r", "o", ".", "m", "d">>
FileMain2 == <<"2", ".", "m", "a", "i", "n", ".", "m", "d">>
FileConclusion3 == <<"3", ".", "c", "o", "n", "c", "l", "u", "s", "i", "o", "n", ".", "m", "d">>
FileChapter1 == <<"1", ".", "c", "h", "a", "p", "t", "e", "r", ".", "m", "d">>

\* the documents createTestSamples writes
TestSampleDocs ==
    (TestArticlesSlash \o <<"v", "a", "l", "i", "d", "-", "a", "r", "t", "i", "c", "l", "e", "-", "s", "a", "m", "p", "l", "e", ".", "m", "d">> :>
        Doc("ok", ValidArticleFm, <<"x">>, TRUE))
    @@ (TestArticlesSlash \o <<"i", "n", "v", "a", "l", "i", "d", "-", "m", "i", "s", "s", "i", "n", "g", "-", "p", "r", "o", "p", "s", ".", "m", "d">> :>
        Doc("ok", FmWith(<<"title", "emoji">>), <<"x">>, TRUE))
    @@ (TestArticlesSlash \o <<"i", "n", "v", "a", "l", "i", "d", "-", "w", "r", "o", "n", "g", "-", "o", "r", "d", "e", "r", ".", "m", "d">> :>
        Doc("ok", FmWith(<<"published", "emoji", "title", "type", "topics">>), <<"x">>, TRUE))
    @@ (TestArticlesSlash \o <<"b", "a", "d", ".", "m", "d">> :>
        Doc("ok", ValidArticleFm, <<"x">>, TRUE))
    @@ (TestBookDir \o <<"/">> \o FileIntro1 :> ValidChapter)
    @@ (TestBookDir \o <<"/">> \o FileMain2 :> ValidChapter)
    @@ (TestBookDir \o <<"/">> \o FileConclusion3 :> UntitledChapter)
    @@ (InvalidBookDir \o <<"/">> \o FileChapter1 :> ValidChapter)
    @@ (NoConfigBookDir \o <<"/">> \o FileChapter1 :> ValidChapter)

\* the book directories createTestSamples writes
TestSampleBooks ==
    (TestBookDir :>
        [manifest |-> Parsed(YManifest(AllBookKeys,
                          YList(<<ChapterEntry(FileIntro1), ChapterEntry(FileMain2),
                                  ChapterEntry(FileConclusion3)>>))),
         files |-> {FileIntro1, FileMain2, FileConclusion3}])
    @@ (InvalidBookDir :>
        [manifest |-> Parsed([t |-> "map", keys |-> {"title", "topics"}]),
         files |-> {FileChapter1}])
    @@ (NoConfigBookDir :>
        [manifest |-> [kind |-> "absent"], files |-> {FileChapter1}])

\* fs.rmSync(testDir, { recursive: true, force: true })
RemoveTestDir(tree) == Restrict(tree, {p \in DOMAIN tree : ~UnderTestDir(p)})

\* the overrides runTests puts into the configuration
TestContentTypePatterns ==
    [keys |-> <<"article", "bookChapter">>,
     get  |-> [t \in {"article", "bookChapter"} |->
                 IF t = "article" THEN PatternArray(<<TestArticlesSlash>>)
                 ELSE PatternArray(<<TestBooksSlash>>)]]

\* the articles of the working directory when the test starts: none, or the
\* wrong-order article of the pool (the test's content pattern passes them by)
CwdArticleChoices == {{}, {2}}

InitTest ==
    /\ platform = "posix"
    /\ config = DEFAULT_CONFIG
    /\ \E as \in CwdArticleChoices, bs \in SUBSET (1..Len(BookPool)) :
          /\ Cardinality(bs) <= MaxRunBooks
          /\ fsDocs = TreeDocs(as, bs)
          /\ fsBooks = TreeBooks(bs)
    /\ pc = "test"
    /\ filePath = <<>>
    /\ lintResult = NullResult
    /\ lastSort = NoSort
    /\ script = "full"
    /\ argvFix \in BOOLEAN
    /\ files = <<>>
    /\ fileIdx = 1
    /\ bookDirs = <<>>
    /\ bookIdx = 1
    /\ hasErrors = FALSE
    /\ frontmatterResults = <<>>
    /\ bookConfigResults = <<>>
    /\ returned = [docs |-> <<>>, books |-> <<>>]
    /\ report = <<>>
    /\ exitCode = 0
    /\ sortCalls = <<>>
    /\ fsCalls = <<>>
    /\ alone = NoAlone
    /\ configFile = NoConfigFile
    /\ test = NoTest

\* runTests up to its first call of runMainWithoutExit
RunTestsSetup ==
    /\ pc = "test"
    /\ fsDocs' = TestSampleDocs @@ RemoveTestDir(fsDocs)
    /\ fsBooks' = TestSampleBooks @@ RemoveTestDir(fsBooks)
    /\ config' = [config EXCEPT !.contentPattern = TestContentPattern,
                                !.contentTypePatterns = TestContentTypePatterns]
    /\ test' = [run |-> 1, passed |-> TRUE, log |-> <<>>, originalFix |-> argvFix,
                originalContentPattern |-> config.contentPattern,
                originalContentTypePatterns |-> config.contentTypePatterns]
    /\ exitCode' = 0
    /\ pc' = "start"
    /\ UNCHANGED <<platform, filePath, lintResult, lastSort, script, argvFix,
                   files, fileIdx, bookDirs, bookIdx, hasErrors,
                   frontmatterResults, bookConfigResults, returned, report, sortCalls,
                   fsCalls, alone, configFile>>

\* the exit code runTests expects of its run n
ExpectedExitCode(n) == IF n = 2 THEN 0 ELSE 1

\* runTests after a call of runMainWithoutExit returned: the verdict on the
\* run, then the next run, or after the third the restoring and the removal
\* of the samples
RunTestsCheck ==
    /\ pc = "done"
    /\ test.run \in 1..3
    /\ LET passed == test.passed /\ exitCode = ExpectedExitCode(test.run)
           log == Append(test.log, [fix |-> argvFix, exitCode |-> exitCode,
                                    docs |-> returned.docs, books |-> returned.books,
                                    sortCalls |-> sortCalls])
       IN  test' = [test EXCEPT !.run = test.run + 1, !.passed = passed, !.log = log]
    /\ IF test.run < 3
       THEN /\ argvFix' = (test.run = 1 \/ test.originalFix)
            /\ pc' = "start"
            /\ UNCHANGED <<config, fsDocs, fsBooks>>
       ELSE /\ argvFix' = test.originalFix
            /\ config' = [config EXCEPT
                             !.contentPattern = test.originalContentPattern,
                             !.contentTypePatterns = test.originalContentTypePatterns]
            /\ fsDocs' = RemoveTestDir(fsDocs)
            /\ fsBooks' = RemoveTestDir(fsBooks)
            /\ pc' = "tested"
    /\ exitCode' = IF test.run < 3 THEN 0 ELSE exitCode
    /\ files' = <<>>
    /\ fileIdx' = 1
    /\ bookDirs' = <<>>
    /\ bookIdx' = 1
    /\ hasErrors' = FALSE
    /\ frontmatterResults' = <<>>
    /\ bookConfigResults' = <<>>
    /\ returned' = [docs |-> <<>>, books |-> <<>>]
    /\ report' = <<>>
    /\ sortCalls' = <<>>
    /\ fsCalls' = <<>>
    /\ UNCHANGED <<platform, filePath, lintResult, lastSort, script, alone, configFile>>

NextTest == RunTestsSetup \/ Start \/ ProcessFile \/ ProcessBook \/ Finish \/ RunTestsCheck

SpecTest == InitTest /\ [][NextTest]_vars

\* the built-in test has made its three runs, the first and third without --fix
ValidateFixValidateDone == test.run = 4 /\ ~test.originalFix

\* the exit codes of the three runs, and the missing-key and invalid-slug
\* findings of the first run being reported again by the third
ExitCodesAndLastingFindings ==
    /\ test.log[1].exitCode = 1
    /\ test.log[2].exitCode = 0
    /\ test.log[3].exitCode = 1
    /\ \A i \in 1..Len(test.log[1].docs) :
          LET first == test.log[1].docs[i]
          IN  (Len(first.missing) > 0 \/ first.invalidSlug) =>
                 \E j \in 1..Len(test.log[3].docs) :
                    /\ test.log[3].docs[j].file = first.file
                    /\ test.log[3].docs[j].missing = first.missing
                    /\ test.log[3].docs[j].invalidSlug = first.invalidSlug

-----------------------------------------------------------------------------
(* One call of lintBookConfig on one book directory *)

MaxChapters == 3     \* entries of an explicit chapters list
MaxBookFiles == 3    \* files in the book directory

FileA == <<"a", ".", "m", "d">>
File10b == <<"1", "0", ".", "b", ".", "m", "d">>
FileNotes == <<"n", "o", "t", "e", "s", ".", "t", "x", "t">>

\* the entries a chapters list can hold
ChapterEntryChoices ==
    { ChapterEntry(File1a), ChapterEntry(File2a), ChapterEntry(File2b), ChapterEntry(FileA),
      YChapter({"file"}, YString(File1a)),            \* no title
      YChapter({"title"}, YString(<<>>)),             \* no file
      YChapter({"file", "title"}, YString(<<>>)),     \* file: ""
      YChapter({"file", "title"}, YNumber(TRUE)),     \* file: 1
      YScalar(TRUE),                                  \* "1.a.md"
      YScalar(FALSE),                                 \* "", 0 or false
      YNull,
      YList(<<>>) }

\* the values the chapters key can have
ChaptersChoices ==
    { YNull, YScalar(TRUE), YScalar(FALSE), [t |-> "map"] }
    \cup { YList(items) : items \in SeqsUpTo(ChapterEntryChoices, MaxChapters) }

\* the key sets of a manifest that has the chapters key
ManifestKeyChoices ==
    { AllBookKeys, AllBookKeys \ {"price", "summary"}, {"chapters"} }

\* manifests without a chapters key, unreadable ones, and ones that do not
\* parse to a mapping
OtherManifestChoices ==
    { [kind |-> "absent"], [kind |-> "unreadable"],
      Parsed(YNull), Parsed(YScalar(TRUE)), Parsed(YList(<<>>)),
      Parsed([t |-> "map", keys |-> AllBookKeys \ {"chapters"}]),
      Parsed([t |-> "map", keys |-> {}]) }

BookFileNames == {File1a, File2a, File2b, File10b, FileIntro, FileNotes}

BookFileChoices == {fs \in SUBSET BookFileNames : Cardinality(fs) <= MaxBookFiles}

TheBookDir == BookDir(<<"b", "k">>)

\* bookConfigRequiredProperties of the default configuration, and of a
\* zenn-lint.config.json that asks for no key
BookRequiredChoices == {DefaultBookConfigRequiredProperties, <<>>}

InitBook ==
    /\ platform = "posix"
    /\ fsDocs = <<>>
    /\ \/ /\ config = DEFAULT_CONFIG
          /\ \E keys \in ManifestKeyChoices, chapters \in ChaptersChoices :
                fsBooks = (TheBookDir :> [manifest |-> Parsed(YManifest(keys, chapters)),
                                          files |-> {File1a, File2b}])
       \/ /\ config = DEFAULT_CONFIG
          /\ \E keys \in ManifestKeyChoices, fs \in BookFileChoices :
                fsBooks = (TheBookDir :> [manifest |-> Parsed(YManifest(keys, YList(<<>>))),
                                          files |-> fs])
       \/ /\ config \in {[DEFAULT_CONFIG EXCEPT !.bookConfigRequiredProperties = r] :
                              r \in BookRequiredChoices}
          /\ \E manifest \in OtherManifestChoices :
                fsBooks = (TheBookDir :> [manifest |-> manifest, files |-> {File1a, File2b}])
    /\ pc = "book"
    /\ filePath = <<>>
    /\ lintResult = NullResult
    /\ lastSort = NoSort
    /\ script \in {"full", "basic"}
    /\ argvFix = FALSE
    /\ files = <<>>
    /\ fileIdx = 1
    /\ bookDirs = <<TheBookDir>>
    /\ bookIdx = 1
    /\ hasErrors = FALSE
    /\ frontmatterResults = <<>>
    /\ bookConfigResults = <<>>
    /\ returned = [docs |-> <<>>, books |-> <<>>]
    /\ report = <<>>
    /\ exitCode = 0
    /\ sortCalls = <<>>
    /\ fsCalls = <<>>
    /\ alone = NoAlone
    /\ configFile = NoConfigFile
    /\ test = NoTest

\* lintBookConfig(dir) of the script in use
CallLintBook ==
    /\ pc = "book"
    /\ LET dir == bookDirs[bookIdx]
           result == IF script = "full" THEN lintBookConfig(dir) ELSE lintBookConfigBasic(dir)
       IN  /\ returned' = [returned EXCEPT !.books = Append(@, result)]
           /\ fsCalls' = fsCalls \o BookFsCalls(dir)
    /\ pc' = "bookLinted"
    /\ UNCHANGED <<platform, config, fsDocs, filePath, lintResult, lastSort, fsBooks,
                   script, argvFix, files, fileIdx, bookDirs, bookIdx, hasErrors,
                   frontmatterResults, bookConfigResults, report, exitCode, sortCalls,
                   alone, configFile, test>>

NextBook == CallLintBook

SpecBook == InitBook /\ [][NextBook]_vars

\* lintBookConfig has returned; its input and its result
BookLinted == pc = "bookLinted"
Manifest == fsBooks[TheBookDir].manifest
BookFiles == fsBooks[TheBookDir].files
BookResult == returned.books[1]

\* the manifest parsed to a mapping with a chapters key
HasChaptersKey ==
    /\ Manifest.kind = "parsed"
    /\ Manifest.value.t = "map"
    /\ "chapters" \in Manifest.value.keys

\* C13: whenever the manifest has a chapters key whose value is anything other
\* than a list (a scalar, a mapping, or an empty/null value), the result has
\* invalidChapters = true and no further chapter check has run (no duplicate
\* check, no other chapters error).
C13_ChaptersNotAList ==
    (BookLinted /\ HasChaptersKey /\ Manifest.value.chapters.t # "list") =>
        /\ BookResult.invalidChapters
        /\ BookResult.chaptersError = "notArray"
        /\ ~BookResult.duplicateChapterSlug

\* the manifest has a chapters list with at least one entry
HasChapterList ==
    /\ HasChaptersKey
    /\ Manifest.value.chapters.t = "list"
    /\ Len(Manifest.value.chapters.items) > 0

ChapterList == Manifest.value.chapters.items

\* an entry that is a mapping with both a file and a title key
IsDescriptor(entry) == entry.t = "map" /\ {"file", "title"} \subseteq entry.keys

\* C14: for every non-empty chapters list, the result has invalidChapters =
\* true if and only if at least one entry is not a descriptor carrying both a
\* file and a title key; plain scalars such as "", 0 or false count as such
\* entries.
C14_ExplicitListPresence ==
    (BookLinted /\ HasChapterList) =>
        (BookResult.invalidChapters
            <=> \E i \in 1..Len(ChapterList) : ~IsDescriptor(ChapterList[i]))

\* the manifest declares chapters: []
HasEmptyChapterList ==
    /\ HasChaptersKey
    /\ Manifest.value.chapters.t = "list"
    /\ Len(Manifest.value.chapters.items) = 0

MarkdownFiles == {f \in BookFiles : EndsWith(f, DotMd)}

\* <digits>.<slug>.md
HasNumberedForm(f) ==
    \E k \in 1..(Len(f) - 5) :
        /\ \A i \in 1..k : f[i] \in Digits
        /\ f[k + 1] = "."
        /\ \A i \in (k + 2)..(Len(f) - 3) : f[i] \in SlugChars
        /\ SubSeq(f, Len(f) - 2, Len(f)) = DotMd

\* the <slug> of a name of that form: what stands between its first dot and .md
FirstDot(f) == CHOOSE i \in 1..Len(f) : f[i] = "." /\ \A j \in 1..(i - 1) : f[j] # "."
NumberedSlug(f) == SubSeq(f, FirstDot(f) + 1, Len(f) - 3)

\* the slugs that two or more files of the directory share
SharedSlugs ==
    {NumberedSlug(f) : f \in {g \in MarkdownFiles :
        \E h \in MarkdownFiles : h # g /\ NumberedSlug(h) = NumberedSlug(g)}}

AllFilesNumbered == MarkdownFiles # {} /\ \A f \in MarkdownFiles : HasNumberedForm(f)

\* C15: when chapters is an empty list and every Markdown file of the book
\* directory (there is at least one) has the form <digits>.<slug>.md, the
\* result has invalidChapters and duplicateChapterSlug, both, if and only if
\* two files share a <slug>, and duplicateChapterNames holds exactly the
\* slugs that occur more than once.
C15_FallbackDuplicates ==
    (BookLinted /\ script = "full" /\ HasEmptyChapterList /\ AllFilesNumbered) =>
        /\ BookResult.invalidChapters <=> SharedSlugs # {}
        /\ BookResult.duplicateChapterSlug <=> SharedSlugs # {}
        /\ Range(BookResult.duplicateChapterNames) = SharedSlugs

\* the directory holds 1.a.md and 2.a.md and the result names the duplicate a
C15_Witness ==
    /\ BookLinted
    /\ script = "full"
    /\ HasEmptyChapterList
    /\ BookFiles = {File1a, File2a}
    /\ BookResult.invalidChapters
    /\ BookResult.duplicateChapterSlug
    /\ BookResult.duplicateChapterNames = <<<<"a">>>>

\* the directory holds 1.a.md and 2.b.md and the result has no chapter finding
C15_WitnessValid ==
    /\ BookLinted
    /\ script = "full"
    /\ HasEmptyChapterList
    /\ BookFiles = {File1a, File2b}
    /\ ~BookResult.invalidChapters
    /\ ~BookResult.duplicateChapterSlug

SomeFileNumbered == \E f \in MarkdownFiles : HasNumberedForm(f)
SomeFileNotNumbered == \E f \in MarkdownFiles : ~HasNumberedForm(f)

\* C16: when chapters is an empty list, the result has invalidChapters = true
\* if the book directory contains no Markdown file, and also if some but not
\* all of its Markdown file names have the numbered form.
C16_FallbackNaming ==
    (BookLinted /\ script = "full" /\ HasEmptyChapterList) =>
        /\ MarkdownFiles = {} =>
              BookResult.invalidChapters /\ BookResult.chaptersError = "noChapterFiles"
        /\ (SomeFileNumbered /\ SomeFileNotNumbered) =>
              BookResult.invalidChapters /\ BookResult.chaptersError = "mixedNaming"

\* a directory with a numbered and an unnumbered Markdown file was reported
C16_Witness ==
    /\ BookLinted
    /\ script = "full"
    /\ HasEmptyChapterList
    /\ BookFiles = {File1a, FileIntro}
    /\ BookResult.invalidChapters
    /\ BookResult.chaptersError = "mixedNaming"

\* a directory whose only file is not a Markdown file was reported
C16_WitnessNoFiles ==
    /\ BookLinted
    /\ script = "full"
    /\ HasEmptyChapterList
    /\ BookFiles = {FileNotes}
    /\ BookResult.invalidChapters
    /\ BookResult.chaptersError = "noChapterFiles"

\* C17: when the manifest declares chapters: [], a book directory that
\* contains any Markdown file not of the form number.slug.md, also one where
\* none of the files is numbered, is reported with invalidChapters = true.
C17_NumberedNamesRequired ==
    (BookLinted /\ script = "full" /\ HasEmptyChapterList /\ SomeFileNotNumbered) =>
        BookResult.invalidChapters

\* an entry whose file value is a non-empty string
CarriesFileName(entry) ==
    /\ entry.t = "map"
    /\ "file" \in entry.keys
    /\ entry.file.t = "string"
    /\ Len(entry.file.s) > 0

\* a file name minus its extension: what stands before its last dot
LastDot(f) == CHOOSE i \in 1..Len(f) : f[i] = "." /\ \A j \in (i + 1)..Len(f) : f[j] # "."
Stem(f) ==
    IF \E i \in 2..Len(f) : f[i] = "." THEN SubSeq(f, 1, LastDot(f) - 1) ELSE f

\* ... and minus a leading chapter number
RECURSIVE DropLeadingDigits(_)
DropLeadingDigits(f) ==
    IF f # <<>> /\ Head(f) \in Digits THEN DropLeadingDigits(Tail(f)) ELSE f

StemWithoutNumber(f) ==
    LET rest == DropLeadingDigits(Stem(f))
    IN  IF rest # Stem(f) /\ rest # <<>> /\ Head(rest) = "." THEN Tail(rest) ELSE Stem(f)

\* C18: for a non-empty chapters list of descriptors, any two descriptors
\* whose file names minus the extension and minus a leading chapter number are
\* the same (file: 1.a.md and file: 2.a.md) make the result carry
\* duplicateChapterSlug = true with that slug listed.
C18_ExplicitSlugWithoutNumber ==
    (BookLinted /\ script = "full" /\ HasChapterList
       /\ \A i \in 1..Len(ChapterList) :
             IsDescriptor(ChapterList[i]) /\ CarriesFileName(ChapterList[i])) =>
        \A i, j \in 1..Len(ChapterList) :
            (i < j /\ StemWithoutNumber(ChapterList[i].file.s)
                        = StemWithoutNumber(ChapterList[j].file.s)) =>
                /\ BookResult.duplicateChapterSlug
                /\ StemWithoutNumber(ChapterList[i].file.s)
                       \in Range(BookResult.duplicateChapterNames)

\* C19: for a non-empty chapters list, duplicateChapterSlug is true if and
\* only if two entries that carry a file value have the same base name minus
\* extension, whether or not the file/title presence check has set
\* invalidChapters.
C19_DuplicateCheckIndependent ==
    (BookLinted /\ script = "full" /\ HasChapterList) =>
        (BookResult.duplicateChapterSlug
            <=> \E i, j \in 1..Len(ChapterList) :
                   /\ i < j
                   /\ CarriesFileName(ChapterList[i])
                   /\ CarriesFileName(ChapterList[j])
                   /\ Stem(ChapterList[i].file.s) = Stem(ChapterList[j].file.s))

\* reading or parsing config.yaml failed, or it parsed to something that is
\* not a mapping
ManifestUnusable ==
    \/ Manifest.kind = "unreadable"
    \/ Manifest.kind = "parsed" /\ Manifest.value.t # "map"

BookErroring ==
    IF script = "full" THEN BookHasFindings(BookResult) ELSE BookHasFindingsBasic(BookResult)

\* C20: whenever reading or parsing config.yaml fails, or the parsed value is
\* not a mapping, lintBookConfig returns (it does not throw) a result whose
\* missing list is the complete list of required manifest keys, and the book
\* counts as erroring.
C20_UnparseableManifest ==
    (BookLinted /\ ManifestUnusable) =>
        /\ Len(returned.books) = 1
        /\ BookResult.missing = config.bookConfigRequiredProperties
        /\ BookErroring

\* C21: when the book directory has no config.yaml, the result has
\* missingConfigFile = true, an empty missing list and no chapter flag
\* (invalidChapters and duplicateChapterSlug stay unset), and the validator
\* has read no file of the directory nor listed it.
C21_NoManifest ==
    (BookLinted /\ Manifest.kind = "absent") =>
        /\ BookResult.missingConfigFile
        /\ BookResult.missing = <<>>
        /\ ~BookResult.invalidChapters
        /\ BookResult.chaptersError = ""
        /\ ~BookResult.duplicateChapterSlug
        /\ BookResult.duplicateChapterNames = <<>>
        /\ fsCalls = <<>>

\* a directory with chapter files and no config.yaml was validated under the
\* default list of required keys
C21_Witness ==
    /\ BookLinted
    /\ Manifest.kind = "absent"
    /\ BookFiles # {}
    /\ Len(config.bookConfigRequiredProperties) > 0
    /\ BookResult.missingConfigFile

\* the report has a line of kind t about the file or directory x
Printed(t, x) ==
    \E i \in 1..Len(report) :
        /\ report[i].t = t
        /\ IF "file" \in DOMAIN report[i] THEN report[i].file = x
           ELSE "dir" \in DOMAIN report[i] /\ report[i].dir = x

\* the report has a line that names exactly the keys ks as missing from x
PrintedMissing(t, x, ks) ==
    \E i \in 1..Len(report) :
        /\ report[i].t = t
        /\ IF t = "missing" THEN report[i].file = x ELSE report[i].dir = x
        /\ report[i].keys = ks

DocFindingsPrinted(result) ==
    /\ Len(result.missing) > 0 => PrintedMissing("missing", result.file, result.missing)
    /\ result.wrongOrder => Printed("wrongOrder", result.file)
    /\ result.invalidSlug => Printed("slugError", result.file)

BookFindingsPrinted(result) ==
    /\ result.missingConfigFile => Printed("missingConfigFile", result.dir)
    /\ Len(result.missing) > 0 => PrintedMissing("bookMissing", result.dir, result.missing)
    /\ result.invalidChapters => Printed("chaptersError", result.dir)
    /\ (script = "full" /\ result.duplicateChapterSlug) => Printed("duplicateSlugs", result.dir)

\* C22: in both scripts every finding that makes a completed run erroring is
\* printed in the report: each document finding (missing keys, wrong order,
\* invalid slug) and each book finding, and for every book result with a
\* non-empty missing list the report names exactly those keys.
C22_ReportComplete ==
    RunCompleted =>
        /\ \A i \in 1..Len(returned.docs) : DocFindingsPrinted(returned.docs[i])
        /\ \A i \in 1..Len(returned.books) : BookFindingsPrinted(returned.books[i])

-----------------------------------------------------------------------------
(* A run that meets the discovered files and book directories in any order *)

MaxOrderFiles == 4   \* entries of [...articleFiles, ...chapterFiles]

\* the articles and books of the pools such a run is started on: a valid, a
\* wrong-order and an unparseable article; a book whose chapter files share
\* a slug, one with a writable and one with a read-only wrong-order chapter
OrderArticles == {1, 2, 6}
OrderBooks == {4, 7, 8}

\* every arrangement of the elements of a sequence
Arrangements(seq) ==
    LET n == Len(seq)
        bijections == {f \in [1..n -> 1..n] : \A i, j \in 1..n : i # j => f[i] # f[j]}
    IN  {[i \in 1..n |-> seq[f[i]]] : f \in bijections}

InitOrder ==
    /\ platform = "posix"
    /\ config \in {[DEFAULT_CONFIG EXCEPT !.contentPattern = c] : c \in ContentPatterns}
    /\ \E as \in SUBSET OrderArticles, bs \in SUBSET OrderBooks :
          /\ Cardinality(as) + Cardinality(bs) <= MaxOrderFiles
          /\ fsDocs = TreeDocs(as, bs)
          /\ fsBooks = TreeBooks(bs)
    /\ Len(GlobSync(ArticlePattern)) + Len(GlobSync("books/**/*.md")) <= MaxOrderFiles
    /\ pc = "start"
    /\ filePath = <<>>
    /\ lintResult = NullResult
    /\ lastSort = NoSort
    /\ script \in {"full", "basic"}
    /\ argvFix \in BOOLEAN
    /\ files = <<>>
    /\ fileIdx = 1
    /\ bookDirs = <<>>
    /\ bookIdx = 1
    /\ hasErrors = FALSE
    /\ frontmatterResults = <<>>
    /\ bookConfigResults = <<>>
    /\ returned = [docs |-> <<>>, books |-> <<>>]
    /\ report = <<>>
    /\ exitCode = 0
    /\ sortCalls = <<>>
    /\ fsCalls = <<>>
    /\ alone = NoAlone
    /\ configFile = NoConfigFile
    /\ test = NoTest

\* the head of the run, with the files and the directories handed to the two
\* loops in an arbitrary order; each item is validated alone first
StartAnyOrder ==
    /\ pc = "start"
    /\ LET articleFiles == GlobSync(ArticlePattern)
           chapterFiles == GlobSync("books/**/*.md")
           dirs == getBookDirectories
       IN  IF Len(articleFiles) = 0 /\ Len(chapterFiles) = 0 /\ Len(dirs) = 0
           THEN /\ report' = <<[t |-> "nothingFound"]>>
                /\ pc' = "done"
                /\ UNCHANGED <<files, bookDirs, alone>>
           ELSE /\ files' \in Arrangements(articleFiles \o chapterFiles)
                /\ bookDirs' \in Arrangements(dirs)
                /\ alone' = [docs |-> [f \in Range(articleFiles \o chapterFiles) |->
                                          lintZennFrontmatter(f)],
                             books |-> [d \in Range(dirs) |->
                                          IF script = "full" THEN lintBookConfig(d)
                                          ELSE lintBookConfigBasic(d)]]
                /\ pc' = PhaseAfter(1, articleFiles \o chapterFiles, 1, dirs)
                /\ UNCHANGED report
    /\ UNCHANGED <<platform, config, fsDocs, filePath, lintResult, lastSort, fsBooks,
                   script, argvFix, fileIdx, bookIdx, hasErrors,
                   frontmatterResults, bookConfigResults, returned, exitCode,
                   sortCalls, fsCalls, configFile, test>>

NextOrder == StartAnyOrder \/ ProcessFile \/ ProcessBook \/ Finish

SpecOrder == InitOrder /\ [][NextOrder]_vars

\* the result is the first one the run got for its file
FirstOfItsFile(i) == \A j \in 1..(i - 1) : returned.docs[j].file # returned.docs[i].file

\* some item, validated alone, has a finding
SomeFindingAlone ==
    \/ \E f \in DOMAIN alone.docs : ~alone.docs[f].isNull /\ HasFindings(alone.docs[f])
    \/ \E d \in DOMAIN alone.books :
          IF script = "full" THEN BookHasFindings(alone.books[d])
          ELSE BookHasFindingsBasic(alone.books[d])

\* C23: whatever the order in which a run meets the documents and the books,
\* the result it gets for a document is the one the validator gives for that
\* document alone (for every document of a run without --fix, and for a
\* document not yet met in a --fix run), the result for a book is the one the
\* validator gives for that book alone, and the completed run is erroring
\* exactly when some item alone has a finding.
C23_OrderIndependence ==
    /\ \A i \in 1..Len(returned.docs) :
          (~argvFix \/ FirstOfItsFile(i)) =>
              returned.docs[i] = alone.docs[returned.docs[i].file]
    /\ \A i \in 1..Len(returned.books) :
          returned.books[i] = alone.books[returned.books[i].dir]
    /\ (RunCompleted /\ files # <<>>) => (hasErrors <=> SomeFindingAlone)

\* a completed --fix run met a valid document first and then a wrong-order
\* document twice, which it rewrote the first time
C23_Witness ==
    /\ RunCompleted
    /\ argvFix
    /\ hasErrors
    /\ Len(returned.docs) >= 3
    /\ ~HasFindings(returned.docs[1])
    /\ \E i, j \in 1..Len(returned.docs) :
          /\ i < j
          /\ returned.docs[i].file = returned.docs[j].file
          /\ returned.docs[i].wrongOrder
          /\ ~returned.docs[j].wrongOrder
    /\ files # GlobSync(ArticlePattern) \o GlobSync("books/**/*.md")

-----------------------------------------------------------------------------
(* A run over one book whose only chapter file holds any frontmatter within  *)
(* the bounds, under several canonical orders                               *)

\* propertyOrder of the default configuration, and of override files that
\* list an array index, a key twice, or a name of Object.prototype
ChapterRunOrders ==
    {DefaultPropertyOrder, <<"title", "1">>, <<"emoji", "title", "emoji">>,
     <<"title", "constructor">>}

ChapterRunBook == BookDir(<<"b">>)

InitChapterRun ==
    /\ platform = "posix"
    /\ config \in {[DEFAULT_CONFIG EXCEPT !.contentPattern = c, !.propertyOrder = o] :
                       c \in ContentPatterns, o \in ChapterRunOrders}
    /\ fsDocs \in {(BookChapterPath :> Doc("ok", fm, <<"x">>, w)) :
                       fm \in WrittenFm, w \in BOOLEAN}
    /\ fsBooks = (ChapterRunBook :>
                     [manifest |-> Parsed(YManifest(AllBookKeys, YList(<<ChapterEntry(File1a)>>))),
                      files |-> {File1a}])
    /\ pc = "start"
    /\ filePath = <<>>
    /\ lintResult = NullResult
    /\ lastSort = NoSort
    /\ script \in {"full", "basic"}
    /\ argvFix \in BOOLEAN
    /\ files = <<>>
    /\ fileIdx = 1
    /\ bookDirs = <<>>
    /\ bookIdx = 1
    /\ hasErrors = FALSE
    /\ frontmatterResults = <<>>
    /\ bookConfigResults = <<>>
    /\ returned = [docs |-> <<>>, books |-> <<>>]
    /\ report = <<>>
    /\ exitCode = 0
    /\ sortCalls = <<>>
    /\ fsCalls = <<>>
    /\ alone = NoAlone
    /\ configFile = NoConfigFile
    /\ test = NoTest

SpecChapterRun == InitChapterRun /\ [][NextRun]_vars

\* how often the run wrote the file
TimesWritten(f) ==
    Cardinality({k \in 1..Len(sortCalls) : sortCalls[k].file = f /\ sortCalls[k].wrote})

\* the first result the run got for the file reports wrong order
FoundInWrongOrder(f) ==
    \E i \in 1..Len(returned.docs) :
        /\ returned.docs[i].file = f
        /\ returned.docs[i].wrongOrder
        /\ FirstOfItsFile(i)

\* C24: in one --fix run no file is written more than once, and a file found
\* with its keys in the wrong order is written exactly once, also when its
\* path is matched by the content pattern and by books/**/*.md and is
\* therefore processed twice.
C24_SingleRewrite ==
    (RunCompleted /\ argvFix) =>
        \A f \in Range(files) :
            /\ TimesWritten(f) <= 1
            /\ FoundInWrongOrder(f) => TimesWritten(f) = 1

\* a --fix run of the code wrote the same path twice
C24_WrittenTwice ==
    /\ RunCompleted
    /\ argvFix
    /\ \E f \in Range(files) : TimesWritten(f) = 2

\* reading or parsing the discovered file fails
ReadFails(f) == fsDocs[f].kind \in {"unreadable", "unparseable"}

\* C25: a document that cannot be read or parsed gets the null outcome: the
\* run holds no validation result for it, prints nothing about it and is not
\* erroring on its account, and every other discovered document and every
\* book directory is still validated.
C25_UnreadableDocument ==
    RunCompleted =>
        /\ \A f \in Range(files) :
              ReadFails(f) =>
                  /\ \A i \in 1..Len(returned.docs) : returned.docs[i].file # f
                  /\ \A i \in 1..Len(frontmatterResults) : frontmatterResults[i].file # f
                  /\ \A i \in 1..Len(report) :
                        "file" \in DOMAIN report[i] => report[i].file # f
        /\ Len(returned.docs) = Len(SelectSeq(files, LAMBDA f : ~ReadFails(f)))
        /\ \A f \in Range(files) :
              ~ReadFails(f) => \E i \in 1..Len(returned.docs) : returned.docs[i].file = f
        /\ Len(returned.books) = Len(bookDirs)
        /\ \A d \in Range(bookDirs) :
              \E i \in 1..Len(returned.books) : returned.books[i].dir = d
        /\ hasErrors => (SomeDocFinding \/ SomeBookFinding)

\* a completed run met a file it could not read or parse, validated another
\* document and a book, and is not erroring
C25_Witness ==
    /\ RunCompleted
    /\ \E f \in Range(files) : ReadFails(f)
    /\ Len(returned.docs) >= 1
    /\ Len(returned.books) >= 1
    /\ ~hasErrors
    /\ exitCode = 0

\* a completed run met a chapter file it could not read, and is erroring on
\* account of the book alone
C25_WitnessUnreadable ==
    /\ RunCompleted
    /\ \E f \in Range(files) : fsDocs[f].kind = "unreadable"
    /\ hasErrors
    /\ ~SomeDocFinding

-----------------------------------------------------------------------------
(* Loading ./zenn-lint.config.json at the start of the script *)

ConfigKeys ==
    <<"propertyOrder", "requiredProperties", "bookConfigRequiredProperties",
      "contentPattern", "contentTypePatterns">>

\* DEFAULT_CONFIG as the object the spread copies from
DefaultConfigObject == [keys |-> ConfigKeys, get |-> DEFAULT_CONFIG]

\* The override file: [kind |-> "absent"], [kind |-> "unreadable"] (readFileSync
\* throws), [kind |-> "malformed"] (JSON.parse throws), or [kind |-> "json",
\* value |-> v] with v the parsed value: an object [t |-> "object", keys, get],
\* or a value without own enumerable keys [t |-> "null" | "number"], or an
\* array of one element [t |-> "array", item |-> x]
JsonObject(keys, get) == [t |-> "object", keys |-> keys, get |-> get]

\* the own enumerable keys of the parsed value, in enumeration order
OwnKeys(v) == IF v.t = "object" THEN v.keys ELSE IF v.t = "array" THEN <<"0">> ELSE <<>>
OwnValue(v, k) == IF v.t = "object" THEN v.get[k] ELSE v.item

\* { ...target, ...source }: the own keys of source assigned one by one
RECURSIVE SpreadKeys(_, _, _)
SpreadKeys(target, source, keys) ==
    IF keys = <<>> THEN target
    ELSE SpreadKeys(JsSet(target, Head(keys), OwnValue(source, Head(keys))), source, Tail(keys))

JsSpread(target, source) == SpreadKeys(target, source, OwnKeys(source))

\* the LintConfig the rest of the script reads from the merged object
AsConfig(obj) == [k \in Range(ConfigKeys) |-> obj.get[k]]

\* a merge that goes into requiredProperties and keeps the default entries
\* of the content types the override does not list
MergedConfigDeep(file) ==
    IF file.kind # "json" THEN DEFAULT_CONFIG
    ELSE LET flat == AsConfig(JsSpread(DefaultConfigObject, file.value))
             types == flat.requiredProperties.keys
                         \o SelectSeq(DefaultRequiredProperties.keys,
                                      LAMBDA t : t \notin Range(flat.requiredProperties.keys))
         IN  [flat EXCEPT !.requiredProperties =
                 [keys |-> types,
                  get |-> [t \in Range(types) |->
                             IF t \in Range(flat.requiredProperties.keys)
                             THEN flat.requiredProperties.get[t]
                             ELSE DefaultRequiredProperties.get[t]]]]

\* the value of `config` after the try block
MergedConfig(file) ==
    IF file.kind # "json" THEN DEFAULT_CONFIG
    ELSE AsConfig(JsSpread(DefaultConfigObject, file.value))

\* the values an override file gives to a key
OverrideValues(k) ==
    CASE k = "propertyOrder" -> {<<"title", "1">>, <<>>}
      [] k = "requiredProperties" ->
            {[keys |-> <<"article">>, get |-> [t \in {"article"} |-> <<"title">>]],
             [keys |-> <<"default", "bookChapter">>,
              get |-> [t \in {"default", "bookChapter"} |-> <<"emoji">>]]}
      [] k = "bookConfigRequiredProperties" -> {<<>>, <<"title">>}
      [] k = "contentPattern" -> {"**/*.md", ""}
      [] k = "contentTypePatterns" -> {NoPatterns, ProtoLabelPatterns}

\* the objects an override file can hold: any of the configuration keys, each
\* with one of its values, and possibly a key the script does not know
OverrideObjects ==
    {JsonObject(SelectSeq(ConfigKeys \o <<"extends">>, LAMBDA k : k \in ks),
                [k \in ks |->
                    CASE k = "propertyOrder" -> po
                      [] k = "requiredProperties" -> rp
                      [] k = "bookConfigRequiredProperties" -> br
                      [] k = "contentPattern" -> cp
                      [] k = "contentTypePatterns" -> ct
                      [] OTHER -> "base"]) :
        ks \in SUBSET (Range(ConfigKeys) \cup {"extends"}),
        po \in OverrideValues("propertyOrder"),
        rp \in OverrideValues("requiredProperties"),
        br \in OverrideValues("bookConfigRequiredProperties"),
        cp \in OverrideValues("contentPattern"),
        ct \in OverrideValues("contentTypePatterns")}

ConfigFileChoices ==
    {[kind |-> "absent"], [kind |-> "unreadable"], [kind |-> "malformed"],
     [kind |-> "json", value |-> [t |-> "null"]],
     [kind |-> "json", value |-> [t |-> "number"]],
     [kind |-> "json", value |-> [t |-> "array", item |-> "x"]]}
    \cup {[kind |-> "json", value |-> v] : v \in OverrideObjects}

\* a document without frontmatter, as a book chapter and outside articles/
\* and books/
InitConfig ==
    /\ platform = "posix"
    /\ config = DEFAULT_CONFIG
    /\ configFile \in ConfigFileChoices
    /\ filePath \in {BookChapterPath, OtherPath}
    /\ fsDocs = (filePath :> Doc("ok", <<>>, <<"x">>, TRUE))
    /\ pc = "loading"
    /\ lintResult = NullResult
    /\ lastSort = NoSort
    /\ fsBooks = <<>>
    /\ script \in {"full", "basic"}
    /\ argvFix = FALSE
    /\ files = <<>>
    /\ fileIdx = 1
    /\ bookDirs = <<>>
    /\ bookIdx = 1
    /\ hasErrors = FALSE
    /\ frontmatterResults = <<>>
    /\ bookConfigResults = <<>>
    /\ returned = [docs |-> <<>>, books |-> <<>>]
    /\ report = <<>>
    /\ exitCode = 0
    /\ sortCalls = <<>>
    /\ fsCalls = <<>>
    /\ alone = NoAlone
    /\ test = NoTest

\* the module-level try block that reads the override file
LoadConfig ==
    /\ pc = "loading"
    /\ config' = MergedConfig(configFile)
    /\ pc' = "idle"
    /\ UNCHANGED <<platform, fsDocs, filePath, lintResult, lastSort, fsBooks, runVars>>

NextConfig == LoadConfig \/ CallLint

SpecConfig == InitConfig /\ [][NextConfig]_vars

\* the override file parsed to an object that has the key
Provided(k) ==
    /\ configFile.kind = "json"
    /\ configFile.value.t = "object"
    /\ k \in Range(configFile.value.keys)

ConfigLoaded == pc \in {"idle", "linted"}

\* C26: the effective configuration takes each top-level key from the
\* override file when the file provides it and from the defaults otherwise; a
\* provided key replaces the default value as a whole, so that a content
\* type the override's requiredProperties does not list has no required key;
\* and an override file that cannot be read or parsed leaves the
\* configuration equal to the defaults.
C26_ConfigMerge ==
    ConfigLoaded =>
        /\ \A k \in Range(ConfigKeys) :
              config[k] = IF Provided(k) THEN configFile.value.get[k] ELSE DEFAULT_CONFIG[k]
        /\ configFile.kind \in {"unreadable", "malformed"} => config = DEFAULT_CONFIG
        /\ (pc = "linted" /\ Provided("requiredProperties")
              /\ lintResult.contentType \notin Range(configFile.value.get["requiredProperties"].keys))
             => lintResult.missing = <<>>

\* the override lists required keys for article only, and a book chapter
\* without any frontmatter was validated with nothing missing
C26_Witness ==
    /\ pc = "linted"
    /\ Provided("requiredProperties")
    /\ ~Provided("contentTypePatterns")
    /\ config.requiredProperties.keys = <<"article">>
    /\ config.bookConfigRequiredProperties = DefaultBookConfigRequiredProperties
    /\ lintResult.contentType = "bookChapter"
    /\ lintResult.missing = <<>>

\* an override file that is not valid JSON was met and the defaults are in use
C26_WitnessMalformed ==
    /\ ConfigLoaded
    /\ configFile.kind = "malformed"
    /\ config = DEFAULT_CONFIG

\* C27: for every metadata mapping and every canonical order, also one that
\* lists a key twice, the order check applied to the key sequence of the
\* reordered mapping finds nothing wrong, and after a successful rewrite the
\* validation of the rewritten file does not report wrongOrder.
C27_NormalizeClearsOrder ==
    /\ (pc \in {"sorted", "sortedTwice"} /\ lastSort.read) =>
           IsInCorrectOrder(lastSort.sortedData.keys, config.propertyOrder)
    /\ (pc = "relinted" /\ lastSort.wrote /\ ~lintResult.isNull) => ~lintResult.wrongOrder

\* a rewrite succeeded and the validation of the rewritten file reports
\* wrongOrder again
C27_StillWrongOrder ==
    /\ pc = "relinted"
    /\ lastSort.wrote
    /\ lintResult.wrongOrder

-----------------------------------------------------------------------------
(* Writes of a run *)

\* the file the loop over the documents is at
FileAtTurn == IF pc = "files" /\ fileIdx <= Len(files) THEN files[fileIdx] ELSE <<>>

\* this step changed what is stored under path p
DocWritten(p) == fsDocs'[p] # fsDocs[p]

\* C28: no step of a run creates or removes a document or changes a book
\* directory or its manifest; in a run without --fix no step changes the
\* content of a document; in a run with --fix a step changes the content of
\* a document only when it is the turn of that document and its validation
\* in that turn reports wrongOrder, so a document whose order check passes
\* keeps its content.
C28_WritesConfined ==
    [][/\ DOMAIN fsDocs' = DOMAIN fsDocs
       /\ fsBooks' = fsBooks
       /\ ~argvFix => fsDocs' = fsDocs
       /\ \A p \in DOMAIN fsDocs :
             DocWritten(p) =>
                 /\ argvFix
                 /\ p = FileAtTurn
                 /\ ~lintZennFrontmatter(p).isNull
                 /\ lintZennFrontmatter(p).wrongOrder]_vars

\* a completed --fix run rewrote one document and returned a result without
\* wrongOrder for another
C28_Witness ==
    /\ RunCompleted
    /\ argvFix
    /\ \E i \in 1..Len(sortCalls) : sortCalls[i].wrote
    /\ \E i \in 1..Len(returned.docs) : ~returned.docs[i].wrongOrder

\* a completed run without --fix met a document in wrong order
C28_WitnessNoFix ==
    /\ RunCompleted
    /\ ~argvFix
    /\ \E i \in 1..Len(returned.docs) : returned.docs[i].wrongOrder

-----------------------------------------------------------------------------
(* The report of a --fix run *)

\* the report says that the order of file f was fixed automatically
ReportedFixed(f) ==
    \E i \in 1..Len(report) : report[i].t = "orderFixed" /\ report[i].file = f

\* a call of sortFrontmatter wrote file f
RewriteSucceeded(f) ==
    \E i \in 1..Len(sortCalls) : sortCalls[i].file = f /\ sortCalls[i].wrote

\* a call of sortFrontmatter for file f ended in its catch block
RewriteFailed(f) ==
    \E i \in 1..Len(sortCalls) : sortCalls[i].file = f /\ ~sortCalls[i].wrote

\* C29: in a --fix run the report line saying that the order of a file was
\* fixed automatically is printed only for a document whose rewrite
\* succeeded, and a failed rewrite does not stop the run: every discovered
\* document and book is still visited.
C29_FixReportTruthful ==
    RunCompleted =>
        /\ \A f \in DOMAIN fsDocs : ReportedFixed(f) => RewriteSucceeded(f)
        /\ (\E f \in DOMAIN fsDocs : RewriteFailed(f)) =>
               /\ fileIdx = Len(files) + 1
               /\ bookIdx = Len(bookDirs) + 1

\* the part of C29 the code keeps: after a failed rewrite the run goes on
\* to the documents and books that follow
C29_RunContinues ==
    /\ RunCompleted
    /\ \E i \in 1..Len(sortCalls) :
          /\ ~sortCalls[i].wrote
          /\ \E j \in 1..Len(returned.docs) :
                /\ returned.docs[j].file # sortCalls[i].file
                /\ \E k \in 1..Len(files) :
                      /\ files[k] = returned.docs[j].file
                      /\ \E m \in 1..(k - 1) : files[m] = sortCalls[i].file

====
